---- MODULE Spec2Model ----
(***************************************************************************)
(* A model of the portfolio aggregation of onchain-portfolio-tracker       *)
(* (src/main.py, src/utils/price.py): the /api/portfolio handler, the      *)
(* per-wallet fetch and normalisation of balances and activity, the merge  *)
(* of tokens by identity key, the token filter, the totals and the sorts.  *)
(*                                                                         *)
(* Representation.                                                         *)
(*  - A Python str is a sequence of one-character strings.                 *)
(*  - A JSON scalar is a record [k, v, s]: k is "null", "absent" (the key  *)
(*    is missing), "num" (v is the number) or "str" (s is the text).       *)
(*  - A Python float is a fixed-point integer counting hundredths          *)
(*    (Scale), so 100.0 is 10000 and the percentage 10.0 is 1000.  The     *)
(*    numbers of the model are chosen so that every division is exact.     *)
(***************************************************************************)
EXTENDS Integers, Sequences, FiniteSets, TLC

----------------------------------------------------------------------------
(* Strings *)

Str(n, c) == [i \in 1..n |-> c]

LowerAlpha ==
    << "a","b","c","d","e","f","g","h","i","j","k","l","m",
       "n","o","p","q","r","s","t","u","v","w","x","y","z" >>

UpperAlpha ==
    << "A","B","C","D","E","F","G","H","I","J","K","L","M",
       "N","O","P","Q","R","S","T","U","V","W","X","Y","Z" >>

Digits == << "0","1","2","3","4","5","6","7","8","9" >>

IsIn(c, alphabet) == \E i \in 1..Len(alphabet) : alphabet[i] = c

IndexIn(c, alphabet) == CHOOSE i \in 1..Len(alphabet) : alphabet[i] = c

\* str.lower(), one character
lower_char(c) == IF IsIn(c, UpperAlpha) THEN LowerAlpha[IndexIn(c, UpperAlpha)] ELSE c

\* str.lower()
lower(s) == [i \in 1..Len(s) |-> lower_char(s[i])]

\* str.capitalize(): first character upper-cased, the rest lower-cased
capitalize(s) ==
    [i \in 1..Len(s) |->
        IF i = 1 /\ IsIn(s[i], LowerAlpha) THEN UpperAlpha[IndexIn(s[i], LowerAlpha)]
        ELSE IF i = 1 THEN s[i] ELSE lower_char(s[i])]

IsSpace(c) == c = " "

RECURSIVE lstrip(_)
lstrip(s) == IF s # <<>> /\ IsSpace(Head(s)) THEN lstrip(Tail(s)) ELSE s

RECURSIVE rstrip(_)
rstrip(s) ==
    IF s # <<>> /\ IsSpace(s[Len(s)]) THEN rstrip(SubSeq(s, 1, Len(s) - 1)) ELSE s

\* str.strip()
strip(s) == rstrip(lstrip(s))

\* Python's `f in s` on two strings
str_in(f, s) ==
    \E i \in 1..(Len(s) - Len(f) + 1) : SubSeq(s, i, i + Len(f) - 1) = f

\* Python's order on strings (code points; the model compares digits and
\* punctuation of timestamps, whose code points follow TimeChars)
TimeChars == << "-", "0","1","2","3","4","5","6","7","8","9", ":", "T", "Z" >>

RECURSIVE str_less(_, _)
str_less(a, b) ==
    IF b = <<>> THEN FALSE
    ELSE IF a = <<>> THEN TRUE
    ELSE IF Head(a) = Head(b) THEN str_less(Tail(a), Tail(b))
    ELSE IndexIn(Head(a), TimeChars) < IndexIn(Head(b), TimeChars)

----------------------------------------------------------------------------
(* Address classification: detect_chain_type *)

HexChars ==
    << "0","1","2","3","4","5","6","7","8","9",
       "a","b","c","d","e","f","A","B","C","D","E","F" >>

Base58Alphabet ==
    << "1","2","3","4","5","6","7","8","9",
       "A","B","C","D","E","F","G","H","J","K","L","M","N","P","Q","R","S","T",
       "U","V","W","X","Y","Z",
       "a","b","c","d","e","f","g","h","i","j","k","m","n","o","p","q","r","s",
       "t","u","v","w","x","y","z" >>

EvmHexLen == 40
Base58MinLen == 32
Base58MaxLen == 44
PubkeyBytes == 32
KeypairBytes == 64

\* a pattern without the upper-case hex digits: ^0x[a-f0-9]{40}$
EVM_RE_lower_hex(s) ==
    /\ Len(s) = 2 + EvmHexLen
    /\ s[1] = "0"
    /\ s[2] = "x"
    /\ \A i \in 3..Len(s) : IsIn(s[i], SubSeq(HexChars, 1, 16))

\* EVM_RE = ^0x[a-fA-F0-9]{40}$
EVM_RE(s) ==
    /\ Len(s) = 2 + EvmHexLen
    /\ s[1] = "0"
    /\ s[2] = "x"
    /\ \A i \in 3..Len(s) : IsIn(s[i], HexChars)

\* BASE58_RE = ^[1-9A-HJ-NP-Za-km-z]{32,44}$
BASE58_RE(s) ==
    /\ Len(s) >= Base58MinLen
    /\ Len(s) <= Base58MaxLen
    /\ \A i \in 1..Len(s) : IsIn(s[i], Base58Alphabet)

\* acc * 58 + carry on a little-endian sequence of bytes
RECURSIVE MulAdd58(_, _)
MulAdd58(bytes, carry) ==
    IF bytes = <<>>
    THEN IF carry = 0 THEN <<>> ELSE << carry % 256 >> \o MulAdd58(<<>>, carry \div 256)
    ELSE LET t == Head(bytes) * 58 + carry
         IN  << t % 256 >> \o MulAdd58(Tail(bytes), t \div 256)

\* the integer a base58 text denotes, as little-endian bytes without leading zeros
RECURSIVE b58decode_int(_, _)
b58decode_int(s, acc) ==
    IF s = <<>> THEN acc
    ELSE b58decode_int(Tail(s), MulAdd58(acc, IndexIn(Head(s), Base58Alphabet) - 1))

RECURSIVE LeadingOnes(_)
LeadingOnes(s) == IF s # <<>> /\ Head(s) = "1" THEN 1 + LeadingOnes(Tail(s)) ELSE 0

\* base58.b58decode: one zero byte per leading "1", then the bytes of the integer
\* (only the length of the result is read by the caller)
b58decode_len(s) ==
    LET ones == LeadingOnes(s)
    IN  ones + Len(b58decode_int(SubSeq(s, ones + 1, Len(s)), <<>>))

\* a classifier whose fall-through answers "svm"
detect_chain_type_svm_fallthrough(address) ==
    LET addr == strip(address)
    IN  IF EVM_RE(addr) THEN "evm" ELSE "svm"

detect_chain_type(address) ==
    LET addr == strip(address)
    IN  IF EVM_RE(addr) THEN "evm"
        ELSE IF BASE58_RE(addr) /\ b58decode_len(addr) \in {PubkeyBytes, KeypairBytes}
             THEN "svm"
        ELSE "unknown"

----------------------------------------------------------------------------
(* JSON scalars and Python numbers *)

\* the fraction digits kept: those of format_usd's "{value:,.2f}"
FractionDigits == 2

RECURSIVE Pow10(_)
Pow10(n) == IF n <= 0 THEN 1 ELSE 10 * Pow10(n - 1)

Scale == Pow10(FractionDigits)

J(k, v, s) == [k |-> k, v |-> v, s |-> s]
JNull == J("null", 0, <<>>)
JAbsent == J("absent", 0, <<>>)
\* a quantity, in hundredths
JNum(n) == J("num", n, <<>>)
\* an identifier (chain_id, offset_hours), unscaled
JInt(n) == J("int", n, <<>>)
JStr(s) == J("str", 0, s)

\* dict.get(key): a missing key reads as None
get(x) == IF x.k = "absent" THEN JNull ELSE x

\* Python truthiness of a scalar
truthy(x) ==
    CASE x.k = "num" -> x.v # 0
      [] x.k = "int" -> x.v # 0
      [] x.k = "str" -> x.s # <<>>
      [] OTHER -> FALSE

\* str(v) of a scalar that is text or None (the model applies it to no number)
str(x) == IF x.k = "str" THEN x.s ELSE <<"N","o","n","e">>

IsDigits(s) == s # <<>> /\ \A i \in 1..Len(s) : IsIn(s[i], Digits)

RECURSIVE digits_value(_, _)
digits_value(s, acc) ==
    IF s = <<>> THEN acc
    ELSE digits_value(Tail(s), acc * 10 + (IndexIn(Head(s), Digits) - 1))

DotPositions(s) == { i \in 1..Len(s) : s[i] = "." }

\* the syntax Decimal(text) accepts, as far as the model's texts go:
\* [-] digits [. digits]  or  [-] . digits
unsigned_decimal_syntax(s) ==
    \/ IsDigits(s)
    \/ /\ Cardinality(DotPositions(s)) = 1
       /\ Len(s) > 1
       /\ \A i \in 1..Len(s) : s[i] = "." \/ IsIn(s[i], Digits)

decimal_syntax(s) ==
    IF s # <<>> /\ Head(s) = "-" THEN unsigned_decimal_syntax(Tail(s))
    ELSE unsigned_decimal_syntax(s)

\* the value of an unsigned decimal text in hundredths (digits beyond the
\* second fraction digit are cut)
unsigned_decimal_value(s) ==
    IF DotPositions(s) = {} THEN digits_value(s, 0) * Scale
    ELSE LET d == CHOOSE i \in DotPositions(s) : TRUE
             ip == SubSeq(s, 1, d - 1)
             fp == SubSeq(SubSeq(s, d + 1, Len(s)) \o <<"0", "0">>, 1, 2)
         IN  digits_value(ip, 0) * Scale + digits_value(fp, 0)

decimal_value(s) ==
    IF Head(s) = "-" THEN 0 - unsigned_decimal_value(Tail(s))
    ELSE unsigned_decimal_value(s)

\* safe_decimal: Decimal(str(value)), None when that raises InvalidOperation
safe_decimal(value) ==
    CASE value.k = "num" -> JNum(value.v)
      [] value.k = "int" -> JNum(value.v * Scale)
      [] value.k = "str" /\ decimal_syntax(strip(value.s)) -> JNum(decimal_value(strip(value.s)))
      [] OTHER -> JNull

\* int(x): [ok, v]; ok is FALSE where Python raises ValueError or TypeError
int(x) ==
    CASE x.k = "int" -> [ok |-> TRUE, v |-> x.v]
      [] x.k = "num" -> [ok |-> TRUE,
                          v |-> IF x.v >= 0 THEN x.v \div Scale ELSE 0 - ((0 - x.v) \div Scale)]
      [] x.k = "str" /\ IsDigits(strip(x.s)) -> [ok |-> TRUE, v |-> digits_value(strip(x.s), 0)]
      [] OTHER -> [ok |-> FALSE, v |-> 0]

\* isinstance(x, (int, float))
is_number(x) == x.k \in {"num", "int"}

\* float(x) of a number
float(x) == IF x.k = "int" THEN x.v * Scale ELSE x.v

\* a / b and a * b on hundredths
FDiv(a, b) == (a * Scale) \div b
FMul(a, b) == (a * b) \div Scale

Abs(n) == IF n < 0 THEN 0 - n ELSE n

----------------------------------------------------------------------------
(* Display formatting *)

RECURSIVE nat_digits(_)
nat_digits(n) == IF n < 10 THEN << Digits[n + 1] >> ELSE nat_digits(n \div 10) \o << Digits[(n % 10) + 1] >>

\* the thousands separators of format spec ","
RECURSIVE group_thousands(_)
group_thousands(ds) ==
    IF Len(ds) <= 3 THEN ds
    ELSE group_thousands(SubSeq(ds, 1, Len(ds) - 3)) \o <<",">> \o SubSeq(ds, Len(ds) - 2, Len(ds))

two_digits(n) == << Digits[(n \div 10) + 1], Digits[(n % 10) + 1] >>

\* f"{x:,.2f}" and f"{x:.2f}" of hundredths
fixed2(x, grouped) ==
    LET a == Abs(x)
        ip == nat_digits(a \div Scale)
    IN  (IF x < 0 THEN <<"-">> ELSE <<>>)
        \o (IF grouped THEN group_thousands(ip) ELSE ip)
        \o <<".">> \o two_digits(a % Scale)

\* a / b rounded to the nearest integer, ties to even (a >= 0, b > 0)
round_div(a, b) ==
    LET q == a \div b
        r == a % b
    IN  IF 2 * r > b \/ (2 * r = b /\ q % 2 = 1) THEN q + 1 ELSE q

\* format_usd
format_usd(value) ==
    IF value.k = "null" THEN JNull ELSE JStr(<<"$">> \o fixed2(value.v, TRUE))

Thousand == 1000
Million == 1000000
Billion == 1000000000
ShortWholeFrom == 100

\* format_amount_short
format_amount_short(amount) ==
    IF amount.k = "null" THEN JNull
    ELSE LET n == amount.v
             abs_n == Abs(n)
             units == abs_n \div Scale
             suffix == IF units >= Billion THEN <<"B">>
                       ELSE IF units >= Million THEN <<"M">>
                       ELSE IF units >= Thousand THEN <<"K">>
                       ELSE <<>>
             div == IF units >= Billion THEN Billion
                    ELSE IF units >= Million THEN Million
                    ELSE IF units >= Thousand THEN Thousand
                    ELSE 1
             sign == IF n < 0 THEN <<"-">> ELSE <<>>
             \* base = n / div; abs(base) >= 100 on the exact quotient
             whole == (abs_n \div div) >= ShortWholeFrom * Scale
             s == IF whole
                  THEN sign \o group_thousands(nat_digits(round_div(abs_n \div div, Scale)))
                  ELSE sign \o fixed2(round_div(abs_n, div), TRUE)
         IN  JStr(s \o suffix)

\* format_signed_currency
format_signed_currency(value) ==
    IF value.k = "null" THEN JNull
    ELSE LET base == format_usd(JNum(Abs(value.v))).s
         IN  IF value.v = 0 THEN JStr(base)
             ELSE JStr((IF value.v > 0 THEN <<"+">> ELSE <<"-">>) \o base)

----------------------------------------------------------------------------
(* utils/price.py *)

\* pct: [raised, v]; raised is TRUE where `curr - past` raises TypeError
\* (past is neither None nor a number)
pct(curr, past) ==
    IF curr.k = "null" \/ past.k = "null" THEN [raised |-> FALSE, v |-> JNull]
    ELSE IF ~is_number(past) THEN [raised |-> TRUE, v |-> JNull]
    ELSE IF float(past) = 0 THEN [raised |-> FALSE, v |-> JNull]
    ELSE [raised |-> FALSE,
          v |-> JNum(FMul(FDiv(float(curr) - float(past), float(past)), 100 * Scale))]

\* price_at: the price_usd of the first entry at offset h, as the response
\* gives it; hist is the list of entries (empty when not a list)
RECURSIVE price_at(_, _)
price_at(hist, h) ==
    IF hist = <<>> THEN JNull
    ELSE IF Head(hist).offset_hours = h THEN get(Head(hist).price_usd)
    ELSE price_at(Tail(hist), h)

Offset24h == 24

change24h(price, hist) == pct(price, price_at(hist, Offset24h))

\* literal texts of the program are kept whole, as one-element sequences
EmDash == << "--" >>

\* format_signed_percent
format_signed_percent(x) ==
    IF x.k = "null" THEN JStr(EmDash)
    ELSE JStr((IF x.v >= 0 THEN <<"+">> ELSE <<>>) \o fixed2(x.v, FALSE) \o <<"%">>)

----------------------------------------------------------------------------
(* Raw records of the upstream responses *)

NoMetadata == [k |-> "null", price_usd |-> JNull, historical_prices |-> <<>>,
               address |-> JNull, symbol |-> JNull, decimals |-> JNull]

\* a balance record with every key missing; historical_prices is the list of
\* [offset_hours, price_usd] entries, empty when the key is missing
EmptyToken ==
    [chain |-> JNull, chain_id |-> JNull, contract_address |-> JNull,
     address |-> JNull, mint |-> JNull, asset_type |-> JNull,
     symbol |-> JNull, name |-> JNull, amount |-> JNull, decimals |-> JNull,
     value_usd |-> JNull, price_usd |-> JNull, low_liquidity |-> FALSE,
     historical_prices |-> <<>>, token_metadata |-> NoMetadata]

\* token.get("token_metadata") or {}
metadata_of(rec) == IF rec.token_metadata.k = "dict" THEN rec.token_metadata ELSE NoMetadata

----------------------------------------------------------------------------
(* Balance normalisation shared by get_wallet_balances and get_svm_balances *)

\* amount_numeric of lines 344-354 (repeated at 470-480): None unless decimals
\* parses to an int >= 0 and the amount parses to a Decimal
amount_numeric(amount_raw, decimals_raw) ==
    LET d == int(decimals_raw)
        a == safe_decimal(amount_raw)
    IN  IF decimals_raw.k = "null" \/ ~d.ok THEN JNull
        ELSE IF amount_raw.k # "null" /\ d.v >= 0 /\ a.k # "null"
             THEN JNum(a.v \div Pow10(d.v))
        ELSE JNull

\* value_usd of lines 357-361 (repeated at 483-487)
value_usd_numeric(value_usd_raw) == safe_decimal(value_usd_raw)

\* x if x is not None else 0.0 ; for a float, x or 0.0 is the same number
or_zero(x) == IF x.k = "null" THEN 0 ELSE x.v

UnknownChain == << "Unknown chain" >>

\* str.isdigit()
isdigit(s) == IsDigits(s)

\* get_chain_label
get_chain_label(token) ==
    LET chain_name == get(token.chain)
    IN  IF chain_name.k = "str" /\ ~isdigit(chain_name.s)
        THEN JStr(capitalize(chain_name.s))
        ELSE JStr(UnknownChain)

----------------------------------------------------------------------------
(* get_wallet_balances: one record of the loop, lines 339-404 *)

RTFKT == << "R", "T", "F", "K", "T" >>

BadgeUp == JStr(<< "badge-up" >>)
BadgeDown == JStr(<< "badge-down" >>)
BadgeNeutral == JStr(<< "badge-neutral" >>)

\* a normaliser for which low_liquidity hides the change itself
evm_record_muting_change(token) ==
    LET amount_num == amount_numeric(get(token.amount), get(token.decimals))
        value_usd == value_usd_numeric(get(token.value_usd))
        token_metadata == metadata_of(token)
        price_usd == get(token.price_usd)
        price == IF is_number(price_usd) THEN JNum(float(price_usd))
                 ELSE IF is_number(get(token_metadata.price_usd))
                      THEN JNum(float(get(token_metadata.price_usd)))
                 ELSE JNull
        hist == IF token.historical_prices # <<>> THEN token.historical_prices
                ELSE token_metadata.historical_prices
        c24 == IF price.k # "null" THEN change24h(price, hist)
               ELSE [raised |-> FALSE, v |-> JNull]
        d24 == IF token.low_liquidity THEN JNull ELSE c24.v
        low_liquidity == token.low_liquidity
        show_badge == d24.k # "null" /\ ~low_liquidity
        badge_class == IF or_zero(d24) >= 0 THEN BadgeUp ELSE BadgeDown
        badge_label == IF d24.k # "null" THEN format_signed_percent(d24) ELSE JNull
    IN  [raised |-> c24.raised,
         dropped |-> get(token.symbol) = JStr(RTFKT),
         tok |-> [valueUSDFormatted |-> format_usd(value_usd),
                  amountFormatted |-> IF amount_num.k # "null"
                                      THEN format_amount_short(amount_num) ELSE JNull,
                  change24h |-> d24,
                  change24hBadgeClass |-> IF show_badge THEN badge_class ELSE JNull,
                  change24hBadgeLabel |-> IF show_badge THEN badge_label ELSE JNull,
                  chain_label |-> get_chain_label(token),
                  amountNumeric |-> or_zero(amount_num),
                  valueUSDNumeric |-> or_zero(value_usd)] @@ token]

\* [raised, dropped, tok]: raised where the record makes the loop raise,
\* dropped where it is skipped by `continue`
evm_record(token) ==
    LET amount_num == amount_numeric(get(token.amount), get(token.decimals))
        value_usd == value_usd_numeric(get(token.value_usd))
        token_metadata == metadata_of(token)
        price_usd == get(token.price_usd)
        price == IF is_number(price_usd) THEN JNum(float(price_usd))
                 ELSE IF is_number(get(token_metadata.price_usd))
                      THEN JNum(float(get(token_metadata.price_usd)))
                 ELSE JNull
        hist == IF token.historical_prices # <<>> THEN token.historical_prices
                ELSE token_metadata.historical_prices
        c24 == IF price.k # "null" THEN change24h(price, hist)
               ELSE [raised |-> FALSE, v |-> JNull]
        d24 == c24.v
        low_liquidity == token.low_liquidity
        show_badge == d24.k # "null" /\ ~low_liquidity
        badge_class == IF or_zero(d24) >= 0 THEN BadgeUp ELSE BadgeDown
        badge_label == IF d24.k # "null" THEN format_signed_percent(d24) ELSE JNull
    IN  [raised |-> c24.raised,
         dropped |-> get(token.symbol) = JStr(RTFKT),
         tok |-> [valueUSDFormatted |-> format_usd(value_usd),
                  amountFormatted |-> IF amount_num.k # "null"
                                      THEN format_amount_short(amount_num) ELSE JNull,
                  change24h |-> d24,
                  change24hBadgeClass |-> IF show_badge THEN badge_class ELSE JNull,
                  change24hBadgeLabel |-> IF show_badge THEN badge_label ELSE JNull,
                  chain_label |-> get_chain_label(token),
                  amountNumeric |-> or_zero(amount_num),
                  valueUSDNumeric |-> or_zero(value_usd)] @@ token]

\* a loop that has no `continue` for RTFKT
RECURSIVE evm_records_keeping_all(_, _)
evm_records_keeping_all(balances, enriched) ==
    IF balances = <<>> THEN [raised |-> FALSE, tokens |-> enriched]
    ELSE LET r == evm_record(Head(balances))
         IN  IF r.raised THEN [raised |-> TRUE, tokens |-> <<>>]
             ELSE evm_records_keeping_all(Tail(balances), Append(enriched, r.tok))

\* the loop over the balances: [raised, tokens]
RECURSIVE evm_records(_, _)
evm_records(balances, enriched) ==
    IF balances = <<>> THEN [raised |-> FALSE, tokens |-> enriched]
    ELSE LET r == evm_record(Head(balances))
         IN  IF r.raised THEN [raised |-> TRUE, tokens |-> <<>>]
             ELSE evm_records(Tail(balances),
                              IF r.dropped THEN enriched ELSE Append(enriched, r.tok))

\* get_wallet_balances on the response of the upstream: [raised, tokens].
\* resp.status is "non200", "exception" (the request or resp.json() raised) or
\* "ok"; resp.body.k is "dict", or "other" for JSON that is no object, on which
\* data.get raises outside the try block.
get_wallet_balances(wallet_address, resp) ==
    IF wallet_address = <<>> THEN [raised |-> FALSE, tokens |-> <<>>]
    ELSE IF resp.status # "ok" THEN [raised |-> FALSE, tokens |-> <<>>]
    ELSE IF resp.body.k # "dict" THEN [raised |-> TRUE, tokens |-> <<>>]
    ELSE evm_records(resp.body.balances, <<>>)

----------------------------------------------------------------------------
(* get_svm_balances, lines 408-504 *)

SvmChainId == << "svm" >>
SvmNative == << "svm-native" >>

\* a or b
or_else(a, b) == IF truthy(a) THEN a ELSE b

svm_record(token) ==
    LET chain_raw == get(token.chain)
        chain == JStr(lower(or_else(chain_raw, JStr(<<>>)).s))
        chain_id == IF get(token.chain_id).k = "null"
                    THEN or_else(chain, JStr(SvmChainId))
                    ELSE get(token.chain_id)
        contract_addr == or_else(get(token.contract_address),
                           or_else(get(token.mint),
                             or_else(get(token.address), JStr(SvmNative))))
        amount_num == amount_numeric(get(token.amount), get(token.decimals))
        value_usd_num == value_usd_numeric(get(token.value_usd))
    IN  \* (t.get("chain") or "").lower() raises on a truthy value that is no str
        [raised |-> truthy(chain_raw) /\ chain_raw.k # "str",
         tok |-> [chain |-> chain,
                  chain_id |-> chain_id,
                  contract_address |-> contract_addr,
                  asset_type |-> or_else(get(token.asset_type), JStr(SvmChainId)),
                  amountNumeric |-> or_zero(amount_num),
                  valueUSDNumeric |-> or_zero(value_usd_num),
                  valueUSDFormatted |-> IF value_usd_num.k # "null"
                                        THEN format_usd(value_usd_num) ELSE JNull,
                  amountFormatted |-> IF amount_num.k # "null"
                                      THEN format_amount_short(amount_num) ELSE JNull,
                  change24h |-> JNull,
                  change24hBadgeLabel |-> JNull,
                  change24hBadgeClass |-> BadgeNeutral] @@ token]

RECURSIVE svm_records(_, _)
svm_records(balances, enriched) ==
    IF balances = <<>> THEN [raised |-> FALSE, tokens |-> enriched]
    ELSE LET r == svm_record(Head(balances))
         IN  IF r.raised THEN [raised |-> TRUE, tokens |-> <<>>]
             ELSE svm_records(Tail(balances), Append(enriched, r.tok))

get_svm_balances(wallet_address, resp) ==
    IF wallet_address = <<>> THEN [raised |-> FALSE, tokens |-> <<>>]
    ELSE IF resp.status # "ok" THEN [raised |-> FALSE, tokens |-> <<>>]
    ELSE IF resp.body.k # "dict" THEN [raised |-> TRUE, tokens |-> <<>>]
    ELSE svm_records(resp.body.balances, <<>>)

----------------------------------------------------------------------------
(* get_wallet_activity, lines 507-651 *)

NoActivityMetadata == [k |-> "null", symbol |-> JNull, decimals |-> JNull]

\* an activity record with every key missing but "type"
EmptyActivity ==
    [type |-> JAbsent, token_metadata |-> NoActivityMetadata, asset_type |-> JNull,
     chain_id |-> JNull, function_name |-> JNull, from |-> JNull, to |-> JNull,
     block_time |-> JNull, value |-> JNull]

Call == << "c", "a", "l", "l" >>
Receive == << "r", "e", "c", "e", "i", "v", "e" >>
Send == << "s", "e", "n", "d" >>
Native == << "n", "a", "t", "i", "v", "e" >>
Unknown == << "Unknown" >>

NativeEthChains == { JInt(1), JInt(8453), JInt(10) }

DefaultDecimals == 18

\* the symbol fallback of the title (lines 546-554) and of the amount (615-623)
activity_symbol(token_md, asset_type, chain_id, native_other, token_other) ==
    IF truthy(get(token_md.symbol)) THEN get(token_md.symbol).s
    ELSE IF asset_type = JStr(Native)
         THEN IF chain_id \in NativeEthChains THEN << "E", "T", "H" >> ELSE native_other
    ELSE token_other

\* s[:6] + "..." + s[-4:]
short_address(s) ==
    SubSeq(s, 1, IF Len(s) < 6 THEN Len(s) ELSE 6)
    \o << "..." >>
    \o SubSeq(s, IF Len(s) < 4 THEN 1 ELSE Len(s) - 3, Len(s))

num2(s, i) == digits_value(SubSeq(s, i, i + 1), 0)

iso_date_syntax(s) ==
    /\ Len(s) >= 10
    /\ IsDigits(SubSeq(s, 1, 4)) /\ s[5] = "-"
    /\ IsDigits(SubSeq(s, 6, 7)) /\ s[8] = "-"
    /\ IsDigits(SubSeq(s, 9, 10))
    /\ num2(s, 6) \in 1..12
    /\ num2(s, 9) \in 1..31

iso_time_syntax(s) ==
    /\ Len(s) = 9
    /\ s[1] = "T"
    /\ IsDigits(SubSeq(s, 2, 3)) /\ s[4] = ":"
    /\ IsDigits(SubSeq(s, 5, 6)) /\ s[7] = ":"
    /\ IsDigits(SubSeq(s, 8, 9))
    /\ num2(s, 2) < 24 /\ num2(s, 5) < 60 /\ num2(s, 8) < 60

\* datetime.fromisoformat(block_time.replace("Z", "+00:00")) succeeds: a date,
\* or a date and a time of day with an optional Z (the days of each month
\* are not told apart)
iso_syntax(s) ==
    /\ iso_date_syntax(s)
    /\ LET rest == SubSeq(s, 11, Len(s))
           time == IF rest # <<>> /\ rest[Len(rest)] = "Z"
                   THEN SubSeq(rest, 1, Len(rest) - 1) ELSE rest
       IN  rest = <<>> \/ iso_time_syntax(time)

\* blockTimeDisplay: the date of a timestamp that parses, else the raw text
block_time_display(block_time) ==
    IF block_time.k # "str" THEN JNull
    ELSE IF iso_syntax(block_time.s) THEN JStr(SubSeq(block_time.s, 1, 10))
    ELSE block_time

RECURSIVE rstrip_char(_, _)
rstrip_char(s, c) ==
    IF s # <<>> /\ s[Len(s)] = c THEN rstrip_char(SubSeq(s, 1, Len(s) - 1), c) ELSE s

RECURSIVE pad_left(_, _)
pad_left(ds, n) == IF Len(ds) >= n THEN ds ELSE pad_left(<<"0">> \o ds, n)

MicroDigits == 6
SmallDigits == 4
MaxDisplayLen == 12

\* f"{scaled:.2e}" of a count of millionths
RECURSIVE sci2(_, _)
sci2(micro, exp) ==
    IF micro >= 1000 * Pow10(MicroDigits)
    THEN sci2(round_div(micro, 10), exp + 1)
    ELSE LET hundredths == round_div(micro, Pow10(MicroDigits - 2))
         IN  IF hundredths >= 1000 THEN sci2(micro \div 10, exp + 1)
             ELSE nat_digits(hundredths \div 100) \o <<".">> \o two_digits(hundredths % 100)
                  \o << "e+" >> \o two_digits(exp)

\* amountDisplay of lines 603-613, scaled = val / 10 ** decimals (decimals >= 0;
\* abs(scaled) > 1e12 is beyond the numbers of the model)
amount_display(val, decimals) ==
    LET a == Abs(val.v)
        \* 0 < abs(scaled) < 0.0001, that is a < 10 ** e
        e == decimals + FractionDigits - SmallDigits
        small == a # 0 /\ e >= 0 /\ (e > 9 \/ a < Pow10(e))
        micro == IF decimals - (MicroDigits - FractionDigits) > 9 THEN 0
                 ELSE IF decimals >= MicroDigits - FractionDigits
                 THEN round_div(a, Pow10(decimals - (MicroDigits - FractionDigits)))
                 ELSE a * Pow10(MicroDigits - FractionDigits - decimals)
        sign == IF val.v < 0 /\ micro # 0 THEN <<"-">> ELSE <<>>
        plain == rstrip_char(
                   rstrip_char(sign \o nat_digits(micro \div Pow10(MicroDigits)) \o <<".">>
                               \o pad_left(nat_digits(micro % Pow10(MicroDigits)), MicroDigits),
                               "0"),
                   ".")
        shown == IF small THEN << "<0.0001" >> ELSE plain
    IN  IF Len(shown) > MaxDisplayLen THEN sign \o sci2(micro, 0) ELSE shown

\* symbol.replace("$", "")
RECURSIVE remove_char(_, _)
remove_char(s, c) ==
    IF s = <<>> THEN <<>>
    ELSE IF Head(s) = c THEN remove_char(Tail(s), c)
    ELSE << Head(s) >> \o remove_char(Tail(s), c)

\* symbol.split(sep)[0]
RECURSIVE before_sep(_, _)
before_sep(s, sep) ==
    IF s = <<>> \/ Head(s) = sep THEN <<>>
    ELSE << Head(s) >> \o before_sep(Tail(s), sep)

MaxSymbolLen == 8

symbol_display(symbol) ==
    LET cut == before_sep(before_sep(before_sep(remove_char(symbol, "$"), " "), "-"), "[")
    IN  SubSeq(cut, 1, IF Len(cut) < MaxSymbolLen THEN Len(cut) ELSE MaxSymbolLen)

\* one record of the loop: [raised, act]
activity_record(a) ==
    LET type == IF a.type.k = "absent" THEN JStr(<<>>) ELSE a.type
        t == type.s
        token_md == IF a.token_metadata.k = "dict" THEN a.token_metadata
                    ELSE NoActivityMetadata
        asset_type == get(a.asset_type)
        chain_id == get(a.chain_id)
        is_call == t = Call /\ truthy(get(a.function_name))
        title == IF is_call THEN << "Call: " >> \o get(a.function_name).s
                 ELSE IF t \in {Receive, Send}
                      THEN (IF t = Receive THEN << "Received " >> ELSE << "Sent " >>)
                           \o activity_symbol(token_md, asset_type, chain_id,
                                              << "Native" >>, << "Token" >>)
                 ELSE capitalize(t)
        party_label == IF t = Receive THEN "From"
                       ELSE IF t = Send THEN "To"
                       ELSE IF t = Call THEN "Contract"
                       ELSE "With"
        party_address == IF t = Receive THEN get(a.from)
                         ELSE IF t \in {Send, Call} THEN get(a.to)
                         ELSE or_else(get(a.to), or_else(get(a.from), JStr(Unknown)))
        short_addr == IF truthy(party_address) /\ party_address # JStr(Unknown)
                      THEN JStr(short_address(party_address.s)) ELSE JNull
        value_raw == get(a.value)
        d == int(get(token_md.decimals))
        decimals == IF get(token_md.decimals).k = "null" \/ ~d.ok THEN DefaultDecimals ELSE d.v
        val == safe_decimal(value_raw)
        shown == value_raw.k # "null" /\ val.k # "null"
    IN  \* t.capitalize() raises when "type" is present and no str
        [raised |-> type.k # "str",
         act |-> [activityTitle |-> JStr(title),
                  activityColorClass |-> JStr(IF is_call THEN Call ELSE t),
                  partyLabel |-> party_label,
                  partyAddressShort |-> short_addr,
                  blockTimeDisplay |-> block_time_display(get(a.block_time)),
                  amountDisplay |-> IF shown THEN JStr(amount_display(val, decimals)) ELSE JNull,
                  symbolDisplay |-> IF shown
                                    THEN JStr(symbol_display(
                                           activity_symbol(token_md, asset_type, chain_id,
                                                           << "N", "T", "V" >>,
                                                           << "T", "o", "k", "e", "n", "s" >>)))
                                    ELSE JNull,
                  directionPrefix |-> IF shown /\ t = Receive THEN "+"
                                      ELSE IF shown /\ t = Send THEN "-"
                                      ELSE ""] @@ a]

RECURSIVE activity_records(_, _)
activity_records(raw_activities, normalized) ==
    IF raw_activities = <<>> THEN [raised |-> FALSE, activities |-> normalized]
    ELSE LET r == activity_record(Head(raw_activities))
         IN  IF r.raised THEN [raised |-> TRUE, activities |-> <<>>]
             ELSE activity_records(Tail(raw_activities), Append(normalized, r.act))

\* get_wallet_activity on the response of the upstream: [raised, activities]
get_wallet_activity(wallet_address, resp) ==
    IF wallet_address = <<>> THEN [raised |-> FALSE, activities |-> <<>>]
    ELSE IF resp.status # "ok" THEN [raised |-> FALSE, activities |-> <<>>]
    ELSE IF resp.body.k # "dict" THEN [raised |-> TRUE, activities |-> <<>>]
    ELSE activity_records(resp.body.activity, <<>>)

----------------------------------------------------------------------------
(* Aggregation across wallets: token_key, token_matches_filter, get_portfolio *)

token_key(token) ==
    << get(token.chain_id), get(token.contract_address),
       get(token.asset_type), get(token.symbol) >>

\* one candidate of token_matches_filter: `if not v: continue`, then
\* `f in str(v).lower()`
candidate_matches(v, f) == truthy(v) /\ str_in(f, lower(str(v)))

\* a filter that is trimmed but not lower-cased
token_matches_filter_cased(token, token_filter) ==
    IF ~truthy(token_filter) THEN TRUE
    ELSE LET f == strip(token_filter.s)
             tm == metadata_of(token)
         IN  IF f = <<>> THEN TRUE
             ELSE \/ candidate_matches(get(token.contract_address), f)
                  \/ candidate_matches(get(token.address), f)
                  \/ candidate_matches(get(token.mint), f)
                  \/ candidate_matches(get(tm.address), f)
                  \/ candidate_matches(get(token.symbol), f)
                  \/ candidate_matches(get(token.name), f)

token_matches_filter(token, token_filter) ==
    IF ~truthy(token_filter) THEN TRUE
    ELSE LET f == lower(strip(token_filter.s))
             tm == metadata_of(token)
         IN  IF f = <<>> THEN TRUE
             ELSE \/ candidate_matches(get(token.contract_address), f)
                  \/ candidate_matches(get(token.address), f)
                  \/ candidate_matches(get(token.mint), f)
                  \/ candidate_matches(get(tm.address), f)
                  \/ candidate_matches(get(token.symbol), f)
                  \/ candidate_matches(get(token.name), f)

InSeq(x, seq) == \E i \in 1..Len(seq) : seq[i] = x

\* a merge that sums the amount of a later occurrence but overwrites the value
merge_token_overwriting(portfolio_tokens, t, addr) ==
    LET key == token_key(t)
        at == { i \in 1..Len(portfolio_tokens) : portfolio_tokens[i].key = key }
    IN  IF at = {}
        THEN Append(portfolio_tokens,
                    [key |-> key, tok |-> [source_wallets |-> << addr >>] @@ t])
        ELSE LET i == CHOOSE j \in at : TRUE
             IN  [portfolio_tokens EXCEPT ![i].tok =
                     [@ EXCEPT
                        !.amountNumeric = @ + t.amountNumeric,
                        !.valueUSDNumeric = t.valueUSDNumeric,
                        !.source_wallets = IF InSeq(addr, @) THEN @ ELSE Append(@, addr)]]

\* lines 725-740: one token of a wallet merged into portfolio_tokens, the dict
\* kept as the sequence of its [key, tok] items in insertion order
merge_token(portfolio_tokens, t, addr) ==
    LET key == token_key(t)
        amount_num == t.amountNumeric
        value_num == t.valueUSDNumeric
        at == { i \in 1..Len(portfolio_tokens) : portfolio_tokens[i].key = key }
    IN  IF at = {}
        THEN Append(portfolio_tokens,
                    [key |-> key,
                     tok |-> [amountNumeric |-> amount_num,
                              valueUSDNumeric |-> value_num,
                              source_wallets |-> << addr >>] @@ t])
        ELSE LET i == CHOOSE j \in at : TRUE
                 existing == portfolio_tokens[i].tok
             IN  [portfolio_tokens EXCEPT ![i].tok =
                     [existing EXCEPT
                        !.amountNumeric = @ + amount_num,
                        !.valueUSDNumeric = @ + value_num,
                        !.source_wallets = IF InSeq(addr, @) THEN @ ELSE Append(@, addr)]]

\* lines 724-740: the loop over the tokens of one wallet
RECURSIVE merge_tokens(_, _, _)
merge_tokens(portfolio_tokens, tokens, addr) ==
    IF tokens = <<>> THEN portfolio_tokens
    ELSE merge_tokens(merge_token(portfolio_tokens, Head(tokens), addr), Tail(tokens), addr)

\* lines 742-745: the activities of one wallet, tagged and appended
tag_activities(all_activities, activities, addr) ==
    all_activities \o [i \in 1..Len(activities) |-> [source_wallet |-> addr] @@ activities[i]]

\* list.sort(key=..., reverse=True): stable, so an item goes after the items of
\* a greater key and after the earlier items of an equal key
sort_reverse(items, less) ==
    LET n == Len(items)
        pos(i) == 1 + Cardinality({ j \in 1..n : less[i][j] })
                    + Cardinality({ j \in 1..(i - 1) : ~less[i][j] /\ ~less[j][i] })
    IN  [p \in 1..n |-> items[CHOOSE i \in 1..n : pos(i) = p]]

int_less(a, b) == a < b

value_key(t) == t.valueUSDNumeric

\* x.get("block_time") or ""
block_time_key(a) == or_else(get(a.block_time), JStr(<<>>)).s

\* the tokens left in the order of the merge map
sort_tokens_skipped(items) == items

\* aggregated_tokens.sort(key=lambda x: x.get("valueUSDNumeric", 0.0), reverse=True)
sort_tokens(items) ==
    sort_reverse(items, [i \in 1..Len(items) |-> [j \in 1..Len(items) |->
                            int_less(value_key(items[i]), value_key(items[j]))]])

\* all_activities.sort(key=lambda x: x.get("block_time") or "", reverse=True)
sort_activities(items) ==
    sort_reverse(items, [i \in 1..Len(items) |-> [j \in 1..Len(items) |->
                            str_less(block_time_key(items[i]), block_time_key(items[j]))]])

\* lines 751-765: the merged tokens that pass the filter, display fields redone
surviving(t) ==
    [value_usd |-> JNum(t.valueUSDNumeric),
     valueUSDFormatted |-> format_usd(JNum(t.valueUSDNumeric)),
     amountFormatted |-> format_amount_short(JNum(t.amountNumeric)),
     chain_label |-> get_chain_label(t)] @@ t

\* a PnL that takes the percentage for a fraction
pnl_24h_undivided(t) ==
    IF t.change24h.k # "null" THEN FMul(t.valueUSDNumeric, float(t.change24h)) ELSE 0

\* the 24h PnL of one surviving token, line 771
pnl_24h(t) ==
    IF t.change24h.k # "null"
    THEN FMul(t.valueUSDNumeric, FDiv(float(t.change24h), 100 * Scale))
    ELSE 0

RECURSIVE filter_tokens(_, _)
filter_tokens(items, token_filter) ==
    IF items = <<>> THEN <<>>
    ELSE (IF token_matches_filter(Head(items).tok, token_filter)
          THEN << surviving(Head(items).tok) >> ELSE <<>>)
         \o filter_tokens(Tail(items), token_filter)

RECURSIVE sum_value(_)
sum_value(tokens) ==
    IF tokens = <<>> THEN 0 ELSE Head(tokens).valueUSDNumeric + sum_value(Tail(tokens))

RECURSIVE sum_pnl(_)
sum_pnl(tokens) == IF tokens = <<>> THEN 0 ELSE pnl_24h(Head(tokens)) + sum_pnl(Tail(tokens))

\* lines 747-778: the result of get_portfolio from the merged map
portfolio_result(portfolio_tokens, all_activities, token_filter) ==
    LET aggregated_tokens == filter_tokens(portfolio_tokens, token_filter)
    IN  [tokens |-> sort_tokens(aggregated_tokens),
         activities |-> sort_activities(all_activities),
         total_value |-> sum_value(aggregated_tokens),
         total_pnl_24h |-> sum_pnl(aggregated_tokens)]

----------------------------------------------------------------------------
(* api_portfolio, lines 785-859 *)

\* a clean-up that remembers the addresses as written, not lower-cased
RECURSIVE clean_wallets_cased(_, _, _)
clean_wallets_cased(wallets_raw, wallets, seen) ==
    IF wallets_raw = <<>> THEN wallets
    ELSE LET w == strip(Head(wallets_raw))
         IN  IF Head(wallets_raw) = <<>> \/ w = <<>> \/ w \in seen
             THEN clean_wallets_cased(Tail(wallets_raw), wallets, seen)
             ELSE clean_wallets_cased(Tail(wallets_raw), Append(wallets, w), seen \cup {w})

\* lines 796-808: clean + dedupe
RECURSIVE clean_wallets(_, _, _)
clean_wallets(wallets_raw, wallets, seen) ==
    IF wallets_raw = <<>> THEN wallets
    ELSE LET w == strip(Head(wallets_raw))
             lw == lower(w)
         IN  IF Head(wallets_raw) = <<>> \/ w = <<>> \/ lw \in seen
             THEN clean_wallets(Tail(wallets_raw), wallets, seen)
             ELSE clean_wallets(Tail(wallets_raw), Append(wallets, w), seen \cup {lw})

Tokens == << "t", "o", "k", "e", "n", "s" >>

ErrorText == << "Failed to fetch wallet data. Please try again." >>

\* lines 811-820
empty_response(tab) ==
    [walletAddresses |-> <<>>,
     currentTab |-> tab,
     totalWalletUSDValue |-> format_usd(JNum(0)),
     totalPnLUSD |-> 0,
     totalPnLUSDFormatted |-> JNull,
     totalPnLClass |-> "pnl-neutral",
     tokens |-> <<>>,
     activities |-> <<>>]

\* an except branch that answers like the empty request, without the error text
error_response_silent(wallets, tab) ==
    [walletAddresses |-> wallets,
     currentTab |-> tab,
     totalWalletUSDValue |-> format_usd(JNum(0)),
     totalPnLUSD |-> 0,
     totalPnLUSDFormatted |-> JNull,
     totalPnLClass |-> "pnl-neutral",
     tokens |-> <<>>,
     activities |-> <<>>]

\* lines 830-840
error_response(wallets, tab) ==
    [walletAddresses |-> wallets,
     currentTab |-> tab,
     totalWalletUSDValue |-> format_usd(JNum(0)),
     totalPnLUSD |-> 0,
     totalPnLUSDFormatted |-> JNull,
     totalPnLClass |-> "pnl-neutral",
     tokens |-> <<>>,
     activities |-> <<>>,
     error |-> ErrorText]

\* lines 845-847
pnl_class(total_pnl_num) ==
    IF total_pnl_num # 0
    THEN IF total_pnl_num > 0 THEN "pnl-up" ELSE "pnl-down"
    ELSE "pnl-neutral"

\* lines 842-859
portfolio_response(wallets, tab, token_filter, result) ==
    [walletAddresses |-> wallets,
     currentTab |-> tab,
     tokenFilter |-> token_filter,
     totalWalletUSDValue |-> format_usd(JNum(result.total_value)),
     totalPnLUSD |-> result.total_pnl_24h,
     totalPnLUSDFormatted |-> format_signed_currency(JNum(result.total_pnl_24h)),
     totalPnLClass |-> pnl_class(result.total_pnl_24h),
     tokens |-> result.tokens,
     activities |-> result.activities]

----------------------------------------------------------------------------
(* The inputs: wallet addresses, token filters, upstream responses *)

\* the longest walletAddresses list of a request
MaxWallets == 2

EvmA == << "0", "x" >> \o Str(EvmHexLen, "a")
\* EvmA in upper-case hex digits: the same address to the clean-up
EvmAUpper == << "0", "x" >> \o Str(EvmHexLen, "A")
EvmB == << "0", "x" >> \o Str(EvmHexLen, "b")
\* 31 zero bytes and the byte 1
SvmS == Str(Base58MinLen - 1, "1") \o << "2" >>
UnknownW == << "n", "o", "p", "e" >>

EvmBPadded == << " " >> \o EvmB \o << " " >>

WalletPool == { <<>>, EvmA, EvmAUpper, EvmBPadded, SvmS, UnknownW }

WalletLists == UNION { [1..n -> WalletPool] : n \in 0..MaxWallets }

FilterPool == { JNull, JStr(<< " ", " " >>), JStr(<< " ", "u", "S", " " >>) }

Ethereum == << "e", "t", "h", "e", "r", "e", "u", "m" >>
Erc20 == << "e", "r", "c", "2", "0" >>
UsdcContract == << "0", "x", "a", "0" >>

\* 1.50 USDC worth 100.00, at 110.00 now and 100.00 a day ago: +10 %
UsdcA ==
    [EmptyToken EXCEPT
       !.chain = JStr(Ethereum), !.chain_id = JInt(1),
       !.contract_address = JStr(UsdcContract), !.asset_type = JStr(Erc20),
       !.symbol = JStr(<< "U", "S", "D", "C" >>),
       !.name = JStr(<< "U", "S", "D", " ", "C", "o", "i", "n" >>),
       !.amount = JStr(<< "1", "5", "0" >>), !.decimals = JInt(2),
       !.value_usd = JNum(10000), !.price_usd = JNum(11000),
       !.historical_prices = << [offset_hours |-> 1, price_usd |-> JNum(10500)],
                                [offset_hours |-> 24, price_usd |-> JNum(10000)] >>]

\* the same token in another wallet: numbers as text, the price in the
\* metadata, no price history
UsdcB ==
    [EmptyToken EXCEPT
       !.chain = JStr(Ethereum), !.chain_id = JInt(1),
       !.contract_address = JStr(UsdcContract), !.asset_type = JStr(Erc20),
       !.symbol = JStr(<< "U", "S", "D", "C" >>),
       !.name = JStr(<< "U", "S", "D", " ", "C", "o", "i", "n" >>),
       !.amount = JStr(<< "2", "5", "0" >>), !.decimals = JStr(<< "2" >>),
       !.value_usd = JStr(<< "3", "0", ".", "5" >>),
       !.price_usd = JStr(<< "1", "1", "0" >>),
       !.token_metadata = [NoMetadata EXCEPT !.k = "dict", !.price_usd = JNum(11000)]]

\* worth 50.00, at 80.00 now and 100.00 a day ago: -20 %
Dai ==
    [EmptyToken EXCEPT
       !.chain = JStr(<< "1" >>), !.chain_id = JInt(1),
       !.contract_address = JStr(<< "0", "x", "d", "1" >>), !.asset_type = JStr(Erc20),
       !.symbol = JStr(<< "D", "A", "I" >>), !.name = JStr(<< "D", "a", "i" >>),
       !.amount = JInt(5000), !.decimals = JInt(2),
       !.value_usd = JNum(5000), !.price_usd = JNum(8000),
       !.historical_prices = << [offset_hours |-> 24, price_usd |-> JNum(10000)] >>]

\* flagged low_liquidity, worth 20.00, +10 % by the prices of its metadata
LowLiq ==
    [EmptyToken EXCEPT
       !.chain = JStr(<< "b", "a", "s", "e" >>), !.chain_id = JInt(8453),
       !.contract_address = JStr(<< "0", "x", "b", "1" >>), !.asset_type = JStr(Erc20),
       !.symbol = JStr(<< "L", "Q" >>),
       !.amount = JStr(<< "7" >>), !.decimals = JInt(0),
       !.value_usd = JNum(2000), !.low_liquidity = TRUE,
       !.token_metadata =
           [NoMetadata EXCEPT
              !.k = "dict", !.price_usd = JNum(11000),
              !.address = JStr(<< "0", "x", "U", "S" >>),
              !.historical_prices = << [offset_hours |-> 24, price_usd |-> JNum(10000)] >>]]

\* amount, value_usd and price_usd that do not parse, a price history without price
Junk ==
    [EmptyToken EXCEPT
       !.chain_id = JInt(1), !.contract_address = JStr(<< "0", "x", "c", "c" >>),
       !.asset_type = JStr(Erc20), !.symbol = JStr(<< "J", "N", "K" >>),
       !.amount = JStr(<< "x" >>), !.decimals = JInt(2),
       !.value_usd = JStr(<< "a", "b", "c" >>),
       !.price_usd = JStr(<< "1", ".", "0" >>),
       !.historical_prices = << [offset_hours |-> 24, price_usd |-> JNull] >>]

\* decimals that do not parse
JunkDecimals ==
    [Junk EXCEPT !.symbol = JStr(<< "J", "D" >>),
                 !.amount = JStr(<< "5" >>), !.decimals = JStr(<< "y" >>),
                 !.value_usd = JNum(100)]

\* a 24h historical price that is text
BadHist ==
    [EmptyToken EXCEPT
       !.chain_id = JInt(1), !.contract_address = JStr(<< "0", "x", "e", "e" >>),
       !.asset_type = JStr(Erc20), !.symbol = JStr(<< "B", "A", "D" >>),
       !.value_usd = JNum(100), !.price_usd = JNum(11000),
       !.historical_prices = << [offset_hours |-> 24, price_usd |-> JStr(<< "a", "b", "c" >>)] >>]

Rtfkt ==
    [EmptyToken EXCEPT
       !.chain_id = JInt(1), !.contract_address = JStr(<< "0", "x", "f", "f" >>),
       !.asset_type = JStr(Erc20), !.symbol = JStr(RTFKT),
       !.value_usd = JNum(99900), !.price_usd = JNum(100)]

\* an SVM balance: no chain_id, a mint, 2.000 SOL worth 70.00
SolTok ==
    [EmptyToken EXCEPT
       !.chain = JStr(<< "S", "o", "l", "a", "n", "a" >>),
       !.mint = JStr(<< "U", "S", "m", "i", "n", "t" >>),
       !.symbol = JStr(<< "S", "O", "L" >>),
       !.amount = JStr(<< "2", "0", "0", "0" >>), !.decimals = JInt(3),
       !.value_usd = JNum(7000)]

\* an SVM balance with nothing but numbers that do not parse
SvmJunk ==
    [EmptyToken EXCEPT
       !.amount = JStr(<< "?" >>), !.decimals = JInt(9), !.value_usd = JStr(<< "n", "a" >>)]

Body(balances, activity) == [k |-> "dict", balances |-> balances, activity |-> activity]

\* valid JSON that is no object
OtherBody == [k |-> "other", balances |-> <<>>, activity |-> <<>>]

Ok(body) == [status |-> "ok", body |-> body]
Non200 == [status |-> "non200", body |-> OtherBody]
\* the request raised (transport, timeout) or resp.json() did
Failed == [status |-> "exception", body |-> OtherBody]

Pending == [status |-> "pending", body |-> OtherBody]

EvmBalanceResponses ==
    { Non200, Failed, Ok(OtherBody),
      Ok(Body(<< UsdcA, Rtfkt, Junk, Dai >>, <<>>)),
      Ok(Body(<< UsdcB, LowLiq, JunkDecimals >>, <<>>)),
      Ok(Body(<< Dai, BadHist >>, <<>>)) }

SvmBalanceResponses ==
    { Non200, Failed, Ok(OtherBody), Ok(Body(<< SvmJunk, SolTok >>, <<>>)) }

Time1 == << "2","0","2","4","-","0","1","-","0","2","T","0","3",":","0","4",":","0","5","Z" >>
Time2 == << "2","0","2","4","-","0","3","-","0","1" >>

ActRecv ==
    [EmptyActivity EXCEPT
       !.type = JStr(Receive), !.chain_id = JInt(1), !.asset_type = JStr(Erc20),
       !.token_metadata = [k |-> "dict", symbol |-> JStr(<< "$", "U", "S", "D", "C", "-", "x" >>),
                           decimals |-> JInt(6)],
       !.from = JStr(<< "0", "x", "1", "2", "3", "4", "5", "6", "7", "8", "9" >>),
       !.value = JStr(<< "1", "5", "0", "0", "0", "0", "0" >>),
       !.block_time = JStr(Time1)]

\* value and decimals that do not parse, no block_time
ActJunk ==
    [EmptyActivity EXCEPT
       !.type = JStr(Send), !.chain_id = JInt(10), !.asset_type = JStr(Native),
       !.token_metadata = [k |-> "dict", symbol |-> JNull, decimals |-> JStr(<< "q" >>)],
       !.to = JStr(<< "0", "x", "9", "9" >>),
       !.value = JStr(<< "z", "z" >>)]

\* a value that parses beside decimals that do not: 18 decimals are taken
ActSend ==
    [ActJunk EXCEPT !.value = JStr(<< "5" >>), !.block_time = JStr(<< "1", "2", ":", "0", "0" >>)]

ActCall ==
    [EmptyActivity EXCEPT
       !.type = JStr(Call), !.chain_id = JInt(1),
       !.function_name = JStr(<< "s", "w", "a", "p" >>),
       !.to = JStr(<< "0", "x", "a", "b", "c", "d", "e", "f", "1", "2" >>),
       !.block_time = JStr(Time2)]

\* "type": null
ActBadType == [ActCall EXCEPT !.type = JNull]

ActivityResponses ==
    { Non200, Failed, Ok(OtherBody),
      Ok(Body(<<>>, << ActRecv, ActJunk, ActCall >>)),
      Ok(Body(<<>>, << ActSend, ActBadType >>)) }

----------------------------------------------------------------------------
(* One POST /api/portfolio request *)

VARIABLES
    payload,            \* the request body: walletAddresses, tab, tokenFilter
    pc,                 \* where the handler is
    wallets,            \* api_portfolio: the cleaned wallet list
    tab,                \* api_portfolio: tab
    token_filter,       \* api_portfolio: token_filter
    idx,                \* get_portfolio: the position of addr in wallets
    tokens,             \* get_portfolio: tokens of the wallet at idx
    activities,         \* get_portfolio: activities of the wallet at idx
    portfolio_tokens,   \* get_portfolio: the merge map
    all_activities,     \* get_portfolio: the combined activities
    result,             \* what get_portfolio returned
    response,           \* what api_portfolio returned
    requests,           \* the upstream requests so far, each with its response
    returned,           \* per processed wallet, what its fetches returned
    calls               \* the frames of get_portfolio calls that run side by side

vars == << payload, pc, wallets, tab, token_filter, idx, tokens, activities,
           portfolio_tokens, all_activities, result, response, requests, returned,
           calls >>

NoResult == [returned |-> FALSE, tokens |-> <<>>, activities |-> <<>>,
             total_value |-> 0, total_pnl_24h |-> 0]

NoResponse == [pending |-> TRUE]

Init ==
    /\ payload \in [walletAddresses : WalletLists, tab : {JNull}, tokenFilter : FilterPool]
    /\ pc = "request"
    /\ wallets = <<>>
    /\ tab = JNull
    /\ token_filter = JNull
    /\ idx = 0
    /\ tokens = <<>>
    /\ activities = <<>>
    /\ portfolio_tokens = <<>>
    /\ all_activities = <<>>
    /\ result = NoResult
    /\ response = NoResponse
    /\ requests = <<>>
    /\ returned = <<>>
    /\ calls = <<>>

addr == wallets[idx]

\* tab == "tokens"
include_historical_prices == tab = JStr(Tokens)

Request(endpoint, wallet, historical) ==
    [endpoint |-> endpoint, wallet |-> wallet, historical |-> historical, resp |-> Pending]

\* a response that is never recorded: the request stays in flight
Answer_lost(resp) == requests

\* a client that issues the request again when it fails
Answer_retrying(resp) ==
    LET answered == [requests EXCEPT ![Len(requests)].resp = resp]
    IN  IF resp.status = "ok" THEN answered
        ELSE Append(answered, [requests[Len(requests)] EXCEPT !.resp = [status |-> "pending", body |-> resp.body]])

\* the response to the request in flight arrives
Answer(resp) == [requests EXCEPT ![Len(requests)].resp = resp]

\* get_portfolio raised: the except branch of api_portfolio, lines 828-840
Raise ==
    /\ response' = error_response(wallets, tab)
    /\ pc' = "done"
    /\ UNCHANGED << idx, tokens, activities, portfolio_tokens, all_activities, returned >>

\* the rest of the loop body, lines 724-745: the wallet's lists are merged
MergeWallet(toks, acts) ==
    /\ portfolio_tokens' = merge_tokens(portfolio_tokens, toks, addr)
    /\ all_activities' = tag_activities(all_activities, acts, addr)
    /\ returned' = Append(returned, [wallet |-> addr, tokens |-> toks, activities |-> acts])
    /\ idx' = idx + 1
    /\ pc' = "loop"

\* api_portfolio up to the call of get_portfolio, lines 791-827
ApiPortfolio ==
    /\ pc = "request"
    /\ LET cleaned == clean_wallets(payload.walletAddresses, <<>>, {})
           t == or_else(get(payload.tab), JStr(Tokens))
       IN  /\ wallets' = cleaned
           /\ tab' = t
           /\ token_filter' = or_else(get(payload.tokenFilter), JNull)
           /\ IF cleaned = <<>>
              THEN /\ response' = empty_response(t)
                   /\ pc' = "done"
                   /\ idx' = idx
              ELSE /\ response' = response
                   /\ pc' = "loop"
                   /\ idx' = 1
    /\ UNCHANGED << calls, payload, tokens, activities, portfolio_tokens, all_activities,
                    result, requests, returned >>

\* the head of the loop, lines 708-722: classify addr and issue its first
\* request; an address of no known chain type goes through the loop body with
\* empty lists
NextWallet ==
    /\ pc = "loop"
    /\ idx <= Len(wallets)
    /\ LET chain_type == detect_chain_type(addr)
       IN  \/ /\ chain_type = "evm"
              /\ requests' = Append(requests,
                                    Request("evm_balances", addr, include_historical_prices))
              /\ pc' = "await_balances"
              /\ UNCHANGED << idx, tokens, activities, portfolio_tokens, all_activities,
                              returned >>
           \/ /\ chain_type = "svm"
              /\ requests' = Append(requests, Request("svm_balances", addr, FALSE))
              /\ pc' = "await_svm_balances"
              /\ UNCHANGED << idx, tokens, activities, portfolio_tokens, all_activities,
                              returned >>
           \/ /\ chain_type = "unknown"
              /\ tokens' = <<>>
              /\ activities' = <<>>
              /\ MergeWallet(<<>>, <<>>)
              /\ UNCHANGED requests
    /\ UNCHANGED << calls, payload, wallets, tab, token_filter, result, response >>

\* await get_wallet_balances returns, line 712; the activity request goes out
BalancesReturn ==
    /\ pc = "await_balances"
    /\ \E resp \in EvmBalanceResponses :
         LET r == get_wallet_balances(addr, resp)
         IN  IF r.raised
             THEN /\ requests' = Answer(resp)
                  /\ Raise
             ELSE /\ requests' = Append(Answer(resp), Request("evm_activity", addr, FALSE))
                  /\ tokens' = r.tokens
                  /\ pc' = "await_activity"
                  /\ UNCHANGED << idx, activities, portfolio_tokens, all_activities,
                                  returned, response >>
    /\ UNCHANGED << calls, payload, wallets, tab, token_filter, result >>

\* await get_wallet_activity returns, line 713, and the loop body goes on to
\* its end, lines 724-745
ActivityReturn ==
    /\ pc = "await_activity"
    /\ \E resp \in ActivityResponses :
         LET r == get_wallet_activity(addr, resp)
         IN  /\ requests' = Answer(resp)
             /\ IF r.raised
                THEN Raise
                ELSE /\ activities' = r.activities
                     /\ MergeWallet(tokens, r.activities)
                     /\ UNCHANGED << tokens, response >>
    /\ UNCHANGED << calls, payload, wallets, tab, token_filter, result >>

\* await get_svm_balances returns, lines 716-717, and the loop body goes on to
\* its end, lines 724-745
SvmBalancesReturn ==
    /\ pc = "await_svm_balances"
    /\ \E resp \in SvmBalanceResponses :
         LET r == get_svm_balances(addr, resp)
         IN  /\ requests' = Answer(resp)
             /\ IF r.raised
                THEN Raise
                ELSE /\ tokens' = r.tokens
                     /\ activities' = <<>>
                     /\ MergeWallet(r.tokens, <<>>)
                     /\ UNCHANGED response
    /\ UNCHANGED << calls, payload, wallets, tab, token_filter, result >>

\* after the loop, lines 747-778, and the response of api_portfolio, 842-859
Finish ==
    /\ pc = "loop"
    /\ idx > Len(wallets)
    /\ LET res == portfolio_result(portfolio_tokens, all_activities, token_filter)
       IN  /\ result' = [returned |-> TRUE] @@ res
           /\ response' = portfolio_response(wallets, tab, token_filter, res)
    /\ pc' = "done"
    /\ UNCHANGED << calls, payload, wallets, tab, token_filter, idx, tokens, activities,
                    portfolio_tokens, all_activities, requests, returned >>

Next ==
    \/ ApiPortfolio
    \/ NextWallet
    \/ BalancesReturn
    \/ ActivityReturn
    \/ SvmBalancesReturn
    \/ Finish

Spec == Init /\ [][Next]_vars

----------------------------------------------------------------------------
(* detect_chain_type on texts of every shape.  get_portfolio takes any list of
   texts: here it is entered with a list of one text that went through no
   clean-up, and takes the step that classifies it. *)

Paddings == { <<>>, << " " >>, << " ", " " >> }

\* 0x and hex digits, around the length and the alphabet of an EVM address
EvmLikeTexts ==
    { prefix \o Str(n, c) \o last :
        prefix \in { << "0", "x" >>, << "0", "X" >>, << "1", "x" >> },
        n \in { EvmHexLen - 2, EvmHexLen - 1, EvmHexLen },
        c \in { "a", "F", "9" },
        last \in { << "0" >>, << "e" >>, << "g" >>, << "B", " ", "c" >> } }

\* k times "1", then one character repeated, around the lengths and the
\* alphabet of base58 and around a decoded length of 32 bytes
Base58LikeTexts ==
    { Str(k, "1") \o Str(n - k, c) :
        n \in { Base58MinLen - 1, Base58MinLen, Base58MinLen + 1,
                Base58MaxLen - 1, Base58MaxLen, Base58MaxLen + 1 },
        k \in { 0, 1, 2, PubkeyBytes - 1 },
        c \in { "1", "2", "z", "J", "0", "l", "O" } }

ClassifyInputs ==
    { front \o text \o back :
        front \in Paddings, back \in Paddings,
        text \in EvmLikeTexts \cup Base58LikeTexts \cup { <<>>, UnknownW } }

ClassifyInit ==
    /\ \E address \in ClassifyInputs :
          /\ payload = [walletAddresses |-> << address >>, tab |-> JNull,
                        tokenFilter |-> JNull]
          /\ wallets = << address >>
    /\ pc = "loop"
    /\ tab = JStr(Tokens)
    /\ token_filter = JNull
    /\ idx = 1
    /\ tokens = <<>>
    /\ activities = <<>>
    /\ portfolio_tokens = <<>>
    /\ all_activities = <<>>
    /\ result = NoResult
    /\ response = NoResponse
    /\ requests = <<>>
    /\ returned = <<>>
    /\ calls = <<>>

ClassifySpec == ClassifyInit /\ [][NextWallet]_vars

----------------------------------------------------------------------------
(* Two get_portfolio calls side by side.  What a call names (wallets,
   token_filter, portfolio_tokens, all_activities, addr, tokens) are the
   parameters and local variables of lines 700-722: each call has a frame of
   its own, and a step of a call is a step of the loop on its frame. *)

Callers == { 1, 2 }

\* a call not yet entered, with its arguments
Waiting(ws, filter) ==
    [pc |-> "idle", wallets |-> ws, token_filter |-> filter, idx |-> 0,
     tokens |-> <<>>, portfolio_tokens |-> <<>>, all_activities |-> <<>>,
     requests |-> <<>>, result |-> NoResult]

\* a frame whose merge map is the one an earlier call left behind
Frame_on_leftover_map(ws, filter) ==
    LET used == { c \in DOMAIN calls : calls[c].portfolio_tokens # <<>> }
    IN  [pc |-> "loop", wallets |-> ws, token_filter |-> filter, idx |-> 1,
         tokens |-> <<>>,
         portfolio_tokens |-> IF used = {} THEN <<>>
                              ELSE calls[CHOOSE c \in used : TRUE].portfolio_tokens,
         all_activities |-> <<>>, requests |-> <<>>, result |-> NoResult]

\* lines 700-705: the call is entered, its map and its list are created empty
Frame(ws, filter) ==
    [pc |-> "loop", wallets |-> ws, token_filter |-> filter, idx |-> 1,
     tokens |-> <<>>, portfolio_tokens |-> <<>>, all_activities |-> <<>>,
     requests |-> <<>>, result |-> NoResult]

frame_addr(f) == f.wallets[f.idx]

frame_request(f, endpoint, pc_next) ==
    [f EXCEPT !.requests = Append(@, Request(endpoint, frame_addr(f), endpoint = "evm_balances")),
              !.pc = pc_next]

frame_answer(f, resp) == [f EXCEPT !.requests[Len(f.requests)].resp = resp]

\* the exception leaves get_portfolio
frame_raise(f) == [f EXCEPT !.pc = "done"]

\* lines 724-745
frame_merge(f, toks, acts) ==
    [f EXCEPT !.portfolio_tokens = merge_tokens(@, toks, frame_addr(f)),
              !.all_activities = tag_activities(@, acts, frame_addr(f)),
              !.idx = @ + 1,
              !.pc = "loop"]

\* lines 708-722, up to the first await
frame_next_wallet(f) ==
    LET chain_type == detect_chain_type(frame_addr(f))
    IN  IF chain_type = "evm" THEN frame_request(f, "evm_balances", "await_balances")
        ELSE IF chain_type = "svm" THEN frame_request(f, "svm_balances", "await_svm_balances")
        ELSE frame_merge(f, <<>>, <<>>)

\* line 712
frame_balances_return(f, resp) ==
    LET r == get_wallet_balances(frame_addr(f), resp)
    IN  IF r.raised THEN frame_raise(frame_answer(f, resp))
        ELSE frame_request([frame_answer(f, resp) EXCEPT !.tokens = r.tokens],
                           "evm_activity", "await_activity")

\* line 713 and the rest of the loop body
frame_activity_return(f, resp) ==
    LET r == get_wallet_activity(frame_addr(f), resp)
    IN  IF r.raised THEN frame_raise(frame_answer(f, resp))
        ELSE frame_merge(frame_answer(f, resp), f.tokens, r.activities)

\* lines 716-717 and the rest of the loop body
frame_svm_balances_return(f, resp) ==
    LET r == get_svm_balances(frame_addr(f), resp)
    IN  IF r.raised THEN frame_raise(frame_answer(f, resp))
        ELSE frame_merge([frame_answer(f, resp) EXCEPT !.tokens = r.tokens], r.tokens, <<>>)

\* lines 747-778
frame_finish(f) ==
    [f EXCEPT !.result = [returned |-> TRUE]
                         @@ portfolio_result(f.portfolio_tokens, f.all_activities,
                                             f.token_filter),
              !.pc = "done"]

\* the answers the upstream gives a call: a failure, a body that is no
\* object, or records that normalise
CallBalanceResponses ==
    { r \in EvmBalanceResponses :
        /\ r.status # "non200"
        /\ r.body.k = "dict" => ~evm_records(r.body.balances, <<>>).raised }

CallActivityResponses ==
    { r \in ActivityResponses :
        \/ r.status = "exception"
        \/ r.body.k = "dict" /\ ~activity_records(r.body.activity, <<>>).raised }

CallSvmResponses ==
    { r \in SvmBalanceResponses :
        \/ r.status = "exception"
        \/ r.body.k = "dict" /\ ~svm_records(r.body.balances, <<>>).raised }

\* the arguments of the two calls: they share a wallet or not
CallArguments ==
    { << Waiting(<< EvmA, EvmB >>, JNull), Waiting(<< EvmA >>, JStr(<< " ", "u", "S", " " >>)) >>,
      << Waiting(<< EvmA, EvmB >>, JNull), Waiting(<< SvmS >>, JNull) >>,
      << Waiting(<< UnknownW, EvmA >>, JNull), Waiting(<< EvmA >>, JNull) >>,
      << Waiting(<< SvmS, EvmB >>, JStr(<< " ", "u", "S", " " >>)), Waiting(<< EvmB >>, JNull) >> }

\* the variables of the request handler, which takes no part here
handler_vars ==
    << payload, pc, wallets, tab, token_filter, idx, tokens, activities,
       portfolio_tokens, all_activities, result, response, requests, returned >>

ConcurrentInit ==
    /\ calls \in CallArguments
    /\ payload = [walletAddresses |-> <<>>, tab |-> JNull, tokenFilter |-> JNull]
    /\ pc = "request"
    /\ wallets = <<>>
    /\ tab = JNull
    /\ token_filter = JNull
    /\ idx = 0
    /\ tokens = <<>>
    /\ activities = <<>>
    /\ portfolio_tokens = <<>>
    /\ all_activities = <<>>
    /\ result = NoResult
    /\ response = NoResponse
    /\ requests = <<>>
    /\ returned = <<>>

CallEnter(c) ==
    /\ calls[c].pc = "idle"
    /\ calls' = [calls EXCEPT ![c] = Frame(calls[c].wallets, calls[c].token_filter)]
    /\ UNCHANGED handler_vars

CallNextWallet(c) ==
    /\ calls[c].pc = "loop"
    /\ calls[c].idx <= Len(calls[c].wallets)
    /\ calls' = [calls EXCEPT ![c] = frame_next_wallet(calls[c])]
    /\ UNCHANGED handler_vars

CallBalancesReturn(c) ==
    /\ calls[c].pc = "await_balances"
    /\ \E resp \in CallBalanceResponses :
          calls' = [calls EXCEPT ![c] = frame_balances_return(calls[c], resp)]
    /\ UNCHANGED handler_vars

CallActivityReturn(c) ==
    /\ calls[c].pc = "await_activity"
    /\ \E resp \in CallActivityResponses :
          calls' = [calls EXCEPT ![c] = frame_activity_return(calls[c], resp)]
    /\ UNCHANGED handler_vars

CallSvmBalancesReturn(c) ==
    /\ calls[c].pc = "await_svm_balances"
    /\ \E resp \in CallSvmResponses :
          calls' = [calls EXCEPT ![c] = frame_svm_balances_return(calls[c], resp)]
    /\ UNCHANGED handler_vars

CallFinish(c) ==
    /\ calls[c].pc = "loop"
    /\ calls[c].idx > Len(calls[c].wallets)
    /\ calls' = [calls EXCEPT ![c] = frame_finish(calls[c])]
    /\ UNCHANGED handler_vars

ConcurrentNext ==
    \E c \in Callers :
        \/ CallEnter(c)
        \/ CallNextWallet(c)
        \/ CallBalancesReturn(c)
        \/ CallActivityReturn(c)
        \/ CallSvmBalancesReturn(c)
        \/ CallFinish(c)

ConcurrentSpec == ConcurrentInit /\ [][ConcurrentNext]_vars

----------------------------------------------------------------------------
(* get_portfolio as a function of the wallet list, for the statements that
   compare two calls: each wallet's fetches return what they returned in the
   request at hand *)

fetched(wallet) ==
    IF \E i \in 1..Len(returned) : returned[i].wallet = wallet
    THEN returned[CHOOSE i \in 1..Len(returned) : returned[i].wallet = wallet]
    ELSE [wallet |-> wallet, tokens |-> <<>>, activities |-> <<>>]

\* the loop of lines 708-745
RECURSIVE portfolio_loop(_, _, _)
portfolio_loop(ws, merged, acts) ==
    IF ws = <<>> THEN [portfolio_tokens |-> merged, all_activities |-> acts]
    ELSE LET f == fetched(Head(ws))
         IN  portfolio_loop(Tail(ws),
                            merge_tokens(merged, f.tokens, Head(ws)),
                            tag_activities(acts, f.activities, Head(ws)))

get_portfolio(ws, filter) ==
    LET end == portfolio_loop(ws, <<>>, <<>>)
    IN  portfolio_result(end.portfolio_tokens, end.all_activities, filter)

----------------------------------------------------------------------------
(* Statements *)

RECURSIVE SumOver(_, _, _)
\* the sum of the field over the records of the sequence that have the key
SumOver(records, key, field) ==
    IF records = <<>> THEN 0
    ELSE (IF token_key(Head(records)) = key THEN Head(records)[field] ELSE 0)
         + SumOver(Tail(records), key, field)

RECURSIVE AllReturnedTokens(_)
AllReturnedTokens(rs) ==
    IF rs = <<>> THEN <<>> ELSE Head(rs).tokens \o AllReturnedTokens(Tail(rs))

HoldersOf(key) ==
    { returned[i].wallet : i \in { j \in 1..Len(returned) :
          \E n \in 1..Len(returned[j].tokens) : token_key(returned[j].tokens[n]) = key } }

Range(seq) == { seq[i] : i \in 1..Len(seq) }

NoDuplicates(seq) == \A i, j \in 1..Len(seq) : i # j => seq[i] # seq[j]

\* C1: after any number of wallets is processed, each entry of the merge map
\* holds the sums of amountNumeric and of valueUSDNumeric over all the token
\* records returned for its key, and its source_wallets is the duplicate-free
\* list of exactly the wallets that returned a record with that key; every key
\* returned has one entry.
C1_MergeSumsByKey ==
    pc = "loop" =>
        LET records == AllReturnedTokens(returned)
        IN  /\ \A i \in 1..Len(portfolio_tokens) :
                 LET e == portfolio_tokens[i]
                 IN  /\ token_key(e.tok) = e.key
                     /\ e.tok.amountNumeric = SumOver(records, e.key, "amountNumeric")
                     /\ e.tok.valueUSDNumeric = SumOver(records, e.key, "valueUSDNumeric")
                     /\ NoDuplicates(e.tok.source_wallets)
                     /\ Range(e.tok.source_wallets) = HoldersOf(e.key)
            /\ NoDuplicates([i \in 1..Len(portfolio_tokens) |-> portfolio_tokens[i].key])
            /\ \A n \in 1..Len(records) :
                 \E i \in 1..Len(portfolio_tokens) : portfolio_tokens[i].key = token_key(records[n])

\* two wallets hold USDC: 100.00 and 30.50 are summed, source_wallets has length 2
C1_Witness ==
    \E i \in 1..Len(portfolio_tokens) :
        /\ Len(portfolio_tokens[i].tok.source_wallets) = 2
        /\ portfolio_tokens[i].tok.valueUSDNumeric = 13050
        /\ portfolio_tokens[i].tok.amountNumeric = 400

\* the requests that were answered
Answered == { i \in 1..Len(requests) : requests[i].resp.status # "pending" }

\* the fetch failed or its body is no JSON object
FetchFailed(req) ==
    \/ req.resp.status \in {"non200", "exception"}
    \/ req.resp.status = "ok" /\ req.resp.body.k # "dict"

\* the records of a well-shaped body make the normaliser raise
RaisingResponses ==
    [evm_balances |-> { r \in EvmBalanceResponses :
                          r.body.k = "dict" /\ evm_records(r.body.balances, <<>>).raised },
     svm_balances |-> { r \in SvmBalanceResponses :
                          r.body.k = "dict" /\ svm_records(r.body.balances, <<>>).raised },
     evm_activity |-> { r \in ActivityResponses :
                          r.body.k = "dict" /\ activity_records(r.body.activity, <<>>).raised }]

RecordRaises(req) == req.resp \in RaisingResponses[req.endpoint]

\* C2: a failed or malformed fetch for one wallet empties only that wallet's
\* contribution and never aborts the batch: when no record of a well-shaped
\* body raises, the call returns, without an error indicator, having processed
\* every wallet, and what the other wallets returned is in the result.
C2_FailedFetchDoesNotAbort ==
    (pc = "done" /\ wallets # <<>> /\ \A i \in Answered : ~RecordRaises(requests[i])) =>
        /\ result.returned
        /\ "error" \notin DOMAIN response
        /\ Len(returned) = Len(wallets)
        /\ \A i \in Answered :
             FetchFailed(requests[i]) =>
                LET f == fetched(requests[i].wallet)
                IN  IF requests[i].endpoint = "evm_activity"
                    THEN f.activities = <<>> ELSE f.tokens = <<>>
        /\ \A i \in 1..Len(returned) :
             /\ \A n \in 1..Len(returned[i].tokens) :
                  \E e \in Range(portfolio_tokens) : e.key = token_key(returned[i].tokens[n])
             /\ \A n \in 1..Len(returned[i].activities) :
                  \E a \in Range(result.activities) :
                      a = [source_wallet |-> returned[i].wallet] @@ returned[i].activities[n]

SeqPermutations(seq) ==
    { [i \in 1..Len(seq) |-> seq[p[i]]] : p \in Permutations(1..Len(seq)) }

\* C3: the order of the wallets does not change the totals: get_portfolio on
\* any permutation of the wallet list gives the same total_value and the same
\* total_pnl_24h.
C3_TotalsIgnoreWalletOrder ==
    (pc = "done" /\ result.returned) =>
        \A ws \in SeqPermutations(wallets) :
            LET other == get_portfolio(ws, token_filter)
            IN  /\ other.total_value = result.total_value
                /\ other.total_pnl_24h = result.total_pnl_24h

\* the text fields the filter is matched against
FilterFields(t) ==
    { get(t.contract_address), get(t.mint), get(t.address),
      get(metadata_of(t).address), get(t.symbol), get(t.name) }

\* needle occurs in text at some position
Occurs(needle, text) ==
    \E i \in 1..(Len(text) - Len(needle) + 1) :
        SubSeq(text, i, i + Len(needle) - 1) = needle

BlankFilter == token_filter.k # "str" \/ \A i \in 1..Len(token_filter.s) : token_filter.s[i] = " "

Needle == lower(strip(token_filter.s))

MatchesNeedle(t) == \E v \in FilterFields(t) : v.k = "str" /\ Occurs(Needle, lower(v.s))

RECURSIVE SumValues(_)
SumValues(ts) == IF ts = <<>> THEN 0 ELSE Head(ts).valueUSDNumeric + SumValues(Tail(ts))

Keys(ts) == { token_key(ts[i]) : i \in 1..Len(ts) }

\* C4: with a non-blank tokenFilter the tokens returned are exactly the merged
\* tokens one of whose contract/mint/address/symbol/name contains the trimmed,
\* lower-cased filter, case-insensitively; with an absent or blank filter they
\* are all the merged tokens; total_value is the sum of valueUSDNumeric over
\* the returned tokens.
C4_FilterSelectsAndTotals ==
    (pc = "done" /\ result.returned) =>
        /\ Cardinality(Keys(result.tokens)) = Len(result.tokens)
        /\ Keys(result.tokens) =
              { e.key : e \in { x \in Range(portfolio_tokens) : BlankFilter \/ MatchesNeedle(x.tok) } }
        /\ result.total_value = SumValues(result.tokens)

\* the filter " uS " keeps USDC (symbol) and drops DAI, and the total is the
\* value of what is kept
C4_Witness ==
    /\ pc = "done" /\ result.returned
    /\ ~BlankFilter
    /\ result.tokens # <<>>
    /\ Len(result.tokens) < Len(portfolio_tokens)
    /\ result.total_value > 0
    /\ result.total_value < SumValues([i \in 1..Len(portfolio_tokens) |-> portfolio_tokens[i].tok])

RECURSIVE SumKnownPnl(_)
\* value * change / 100 over the tokens of known change24h, in hundredths
SumKnownPnl(ts) ==
    IF ts = <<>> THEN 0
    ELSE (IF Head(ts).change24h.k = "num"
          THEN (Head(ts).valueUSDNumeric * Head(ts).change24h.v) \div (100 * Scale)
          ELSE 0)
         + SumKnownPnl(Tail(ts))

\* C5: total_pnl_24h is the sum of usdValue * change24h / 100 over the returned
\* tokens of known change24h, the others counting 0; it is the totalPnLUSD of
\* the response, whose totalPnLClass is pnl-neutral exactly when it is 0.
C5_TotalPnl ==
    (pc = "done" /\ result.returned) =>
        /\ result.total_pnl_24h = SumKnownPnl(result.tokens)
        /\ response.totalPnLUSD = result.total_pnl_24h
        /\ response.totalPnLClass = "pnl-neutral" <=> result.total_pnl_24h = 0
        /\ response.totalPnLClass = "pnl-up" <=> result.total_pnl_24h > 0
        /\ response.totalPnLClass = "pnl-down" <=> result.total_pnl_24h < 0

\* 100.00 at +10 % in one wallet and 50.00 at -20 % in another: 10.00 - 10.00
C5_Witness ==
    /\ pc = "done" /\ result.returned
    /\ Len(wallets) = 2
    /\ \E i \in 1..Len(result.tokens) :
          /\ result.tokens[i].valueUSDNumeric = 10000
          /\ result.tokens[i].change24h = JNum(1000)
    /\ \E i \in 1..Len(result.tokens) :
          /\ result.tokens[i].valueUSDNumeric = 5000
          /\ result.tokens[i].change24h = JNum(-2000)
    /\ \E i \in 1..Len(result.tokens) : result.tokens[i].change24h = JNull
    /\ response.totalPnLUSD = 0
    /\ response.totalPnLClass = "pnl-neutral"

\* the trimmed text and its lower-cased form, for each entry a request may hold
StrippedOf == [w \in WalletPool |-> strip(w)]

LoweredOf == [w \in { StrippedOf[x] : x \in WalletPool } |-> lower(w)]

Stripped(i) == StrippedOf[payload.walletAddresses[i]]

\* the entries of the request that are not blank and whose lower-cased text
\* did not occur before
FirstOccurrences ==
    { i \in 1..Len(payload.walletAddresses) :
        /\ Stripped(i) # <<>>
        /\ \A j \in 1..(i - 1) : LoweredOf[Stripped(j)] # LoweredOf[Stripped(i)] }

\* C6: the wallet list handed to get_portfolio has no blank entry and no two
\* entries equal after lower-casing; it is the first occurrences of the
\* request's entries, trimmed, in the order of the request; no request to the
\* upstream is issued before it is made, and none for another address.
C6_WalletsCleaned ==
    /\ pc = "request" => requests = <<>>
    /\ \A i \in 1..Len(requests) : requests[i].wallet \in Range(wallets)
    /\ pc # "request" =>
          /\ \A i \in 1..Len(wallets) :
                /\ wallets[i] # <<>>
                /\ \E j \in 1..Len(payload.walletAddresses) : wallets[i] = Stripped(j)
          /\ \A i, j \in 1..Len(wallets) :
                i # j => LoweredOf[wallets[i]] # LoweredOf[wallets[j]]
          /\ Len(wallets) = Cardinality(FirstOccurrences)
          /\ \A k \in 1..Len(wallets) :
                \E i \in FirstOccurrences :
                    /\ Cardinality({ j \in FirstOccurrences : j < i }) = k - 1
                    /\ wallets[k] = Stripped(i)

\* the same address in two letter cases, or a blank entry, in the request
C6_Witness ==
    /\ pc = "await_balances"
    /\ Len(wallets) = 1
    /\ Len(payload.walletAddresses) = 2
    /\ payload.walletAddresses[1] # payload.walletAddresses[2]
    /\ lower(payload.walletAddresses[1]) = lower(payload.walletAddresses[2])

ZeroUsd == JStr(<< "$", "0", ".", "0", "0" >>)

\* C7: when get_portfolio raises, api_portfolio still returns: empty tokens and
\* activities, the total formatted as zero, totalPnLUSD 0, pnl-neutral and an
\* error text; no other response has the error key.
C7_RaiseGivesErrorResponse ==
    pc = "done" =>
        /\ response # NoResponse
        /\ "error" \in DOMAIN response <=> \E i \in Answered : RecordRaises(requests[i])
                                            \/ (requests[i].resp.status = "ok"
                                                /\ requests[i].resp.body.k # "dict")
        /\ "error" \in DOMAIN response =>
              /\ ~result.returned
              /\ response.tokens = <<>>
              /\ response.activities = <<>>
              /\ response.totalWalletUSDValue = ZeroUsd
              /\ response.totalPnLUSD = 0
              /\ response.totalPnLClass = "pnl-neutral"
              /\ response.error # <<>>
        /\ "error" \notin DOMAIN response /\ wallets # <<>> => result.returned

\* the second wallet's fetch raises after the first wallet was merged
C7_Witness ==
    /\ pc = "done"
    /\ "error" \in DOMAIN response
    /\ Len(wallets) = 2
    /\ portfolio_tokens # <<>>
    /\ response.tokens = <<>>

\* neither an EVM address nor a base58 text of 32 or 64 bytes
UnclassifiedAddresses ==
    { w \in { strip(x) : x \in WalletPool } :
        /\ ~EVM_RE(w)
        /\ ~(BASE58_RE(w) /\ b58decode_len(w) \in {PubkeyBytes, KeypairBytes}) }

Unclassified(w) == w \in UnclassifiedAddresses

RECURSIVE WithoutUnclassified(_)
WithoutUnclassified(ws) ==
    IF ws = <<>> THEN <<>>
    ELSE (IF Unclassified(Head(ws)) THEN <<>> ELSE << Head(ws) >>)
         \o WithoutUnclassified(Tail(ws))

\* C8: for an address classified Unknown no upstream request is issued, its
\* tokens and activities are empty, it makes no call fail, and the result of
\* the call is the result of the call without it.
C8_UnknownWalletIsSkipped ==
    /\ \A i \in 1..Len(requests) : ~Unclassified(requests[i].wallet)
    /\ \A i \in 1..Len(returned) :
          Unclassified(returned[i].wallet) =>
              returned[i].tokens = <<>> /\ returned[i].activities = <<>>
    /\ (pc = "done" /\ wallets # <<>> /\ requests = <<>>) =>
          /\ result.returned
          /\ "error" \notin DOMAIN response
          /\ response.tokens = <<>> /\ response.activities = <<>>
    /\ (pc = "done" /\ result.returned /\ \E i \in 1..Len(wallets) : Unclassified(wallets[i])) =>
          get_portfolio(WithoutUnclassified(wallets), token_filter)
              = [tokens |-> result.tokens, activities |-> result.activities,
                 total_value |-> result.total_value, total_pnl_24h |-> result.total_pnl_24h]

\* an Unknown address beside a wallet with tokens
C8_Witness ==
    /\ pc = "done" /\ result.returned
    /\ \E i \in 1..Len(wallets) : Unclassified(wallets[i])
    /\ result.tokens # <<>>
    /\ Len(requests) = 2

\* the records a well-shaped body holds for the normaliser of its endpoint
RawRecords(req) ==
    IF req.endpoint = "evm_activity" THEN req.resp.body.activity ELSE req.resp.body.balances

\* the records the normaliser emits for them
Emitted(req) ==
    CASE req.endpoint = "evm_balances" -> evm_records(req.resp.body.balances, <<>>).tokens
      [] req.endpoint = "svm_balances" -> svm_records(req.resp.body.balances, <<>>).tokens
      [] OTHER -> activity_records(req.resp.body.activity, <<>>).activities

Kept(req) ==
    { n \in 1..Len(RawRecords(req)) :
        req.endpoint # "evm_balances" \/ get(RawRecords(req)[n].symbol) # JStr(RTFKT) }

\* C9: a field of a raw record that does not parse never aborts normalisation:
\* for a body of the expected shape no exception leaves get_wallet_balances,
\* get_svm_balances or get_wallet_activity, and every record (but RTFKT) is
\* emitted.
C9_BadFieldNeverAborts ==
    \A i \in Answered :
        (requests[i].resp.status = "ok" /\ requests[i].resp.body.k = "dict") =>
            /\ ~RecordRaises(requests[i])
            /\ Len(Emitted(requests[i])) = Cardinality(Kept(requests[i]))

BlockTimeText(a) == IF a.block_time.k = "str" THEN a.block_time.s ELSE <<>>

\* C10: the tokens of a result are in non-increasing order of valueUSDNumeric
\* and its activities in non-increasing order of the block_time text, a missing
\* block_time counting as the empty text; the response carries them as they are.
C10_ResultSorted ==
    (pc = "done" /\ result.returned) =>
        /\ \A i, j \in 1..Len(result.tokens) :
              i < j => result.tokens[i].valueUSDNumeric >= result.tokens[j].valueUSDNumeric
        /\ \A i, j \in 1..Len(result.activities) :
              i < j => ~str_less(BlockTimeText(result.activities[i]),
                                 BlockTimeText(result.activities[j]))
        /\ response.tokens = result.tokens
        /\ response.activities = result.activities

\* tokens merged in another order than that of their values, activities with
\* and without block_time
C10_Witness ==
    /\ pc = "done" /\ result.returned
    /\ Len(result.tokens) >= 3
    /\ \E i, j \in 1..Len(portfolio_tokens) :
          i < j /\ portfolio_tokens[i].tok.valueUSDNumeric < portfolio_tokens[j].tok.valueUSDNumeric
    /\ \E i, j \in 1..Len(all_activities) :
          i < j /\ str_less(BlockTimeText(all_activities[i]), BlockTimeText(all_activities[j]))
    /\ \E i \in 1..Len(result.activities) : result.activities[i].block_time = JNull

\* the balances request of the wallet whose activity request is in flight
BalancesRequest == requests[Len(requests) - 1]

\* the records of its response: none unless the body is an object
BalancesRecords ==
    IF BalancesRequest.resp.status = "ok" /\ BalancesRequest.resp.body.k = "dict"
    THEN BalancesRequest.resp.body.balances ELSE <<>>

IsRtfkt(rec) == rec.symbol.k = "str" /\ rec.symbol.s = << "R", "T", "F", "K", "T" >>

\* the positions of the records that are not RTFKT, in order
NotRtfkt(records) ==
    LET keep == { n \in 1..Len(records) : ~IsRtfkt(records[n]) }
    IN  [k \in 1..Cardinality(keep) |->
            CHOOSE n \in keep : Cardinality({ m \in keep : m < n }) = k - 1]

EvmAddresses == { w \in { strip(x) : x \in WalletPool } : EVM_RE(w) }

\* the number of requests to the endpoint for the wallet
Calls(endpoint, w) ==
    Cardinality({ i \in 1..Len(requests) :
                    requests[i].endpoint = endpoint /\ requests[i].wallet = w })

\* the requests one call makes for a wallet it has gone through
CallsExpected(w) ==
    IF w \in EvmAddresses
    THEN [evm_balances |-> 1, evm_activity |-> 1, svm_balances |-> 0]
    ELSE IF Unclassified(w)
    THEN [evm_balances |-> 0, evm_activity |-> 0, svm_balances |-> 0]
    ELSE [evm_balances |-> 0, evm_activity |-> 0, svm_balances |-> 1]

Trimmed(s) ==
    LET inked == { i \in 1..Len(s) : s[i] # " " }
    IN  IF inked = {} THEN <<>>
        ELSE SubSeq(s, CHOOSE i \in inked : \A j \in inked : i <= j,
                       CHOOSE i \in inked : \A j \in inked : j <= i)

HexDigitSet ==
    { "0", "1", "2", "3", "4", "5", "6", "7", "8", "9",
      "a", "b", "c", "d", "e", "f", "A", "B", "C", "D", "E", "F" }

\* ^0x[0-9a-fA-F]{40}$
IsEvmText(s) ==
    /\ Len(s) = 42
    /\ SubSeq(s, 1, 2) = << "0", "x" >>
    /\ \A i \in 3..42 : s[i] \in HexDigitSet

NotBase58(c) == c \in { "0", "O", "I", "l" }

IsBase58Char(c) == ~NotBase58(c)

\* the digits and letters without 0, O, I and l, in the order of their values
Base58Order == SelectSeq(Digits \o UpperAlpha \o LowerAlpha, IsBase58Char)

IsBase58Text(s) ==
    /\ Len(s) >= 32
    /\ Len(s) <= 44
    /\ \A i \in 1..Len(s) : \E v \in 1..Len(Base58Order) : Base58Order[v] = s[i]

\* the base-58 digits of the text, the most significant first
Base58Digits(s) ==
    [i \in 1..Len(s) |-> (CHOOSE v \in 1..Len(Base58Order) : Base58Order[v] = s[i]) - 1]

\* the quotient of the number by 256, by long division from the first digit
RECURSIVE Over256(_, _)
Over256(digits, carry) ==
    IF digits = <<>> THEN <<>>
    ELSE LET t == carry * 58 + Head(digits)
         IN  << t \div 256 >> \o Over256(Tail(digits), t % 256)

\* the number of bytes the number takes
RECURSIVE ByteCount(_)
ByteCount(digits) ==
    IF \A i \in 1..Len(digits) : digits[i] = 0 THEN 0
    ELSE 1 + ByteCount(Over256(digits, 0))

\* the length of what the text decodes to: a zero byte for each leading "1"
\* and the bytes of the number
DecodedLength(s) ==
    LET digits == Base58Digits(s)
        zeros == Cardinality({ i \in 1..Len(s) : \A j \in 1..i : s[j] = "1" })
    IN  zeros + ByteCount(digits)

IsSvmText(s) == IsBase58Text(s) /\ DecodedLength(s) \in { 32, 64 }

\* C13: detect_chain_type answers evm, svm or unknown for every text: evm for
\* exactly the texts that, trimmed, match ^0x[0-9a-fA-F]{40}$; svm for exactly
\* the others that, trimmed, are 32 to 44 base58 characters decoding to 32 or
\* 64 bytes; unknown for all the rest; the loop takes the branch of the answer.
C13_Classification ==
    LET w == wallets[1]
        t == Trimmed(w)
        chain_type == detect_chain_type(w)
    IN  /\ chain_type \in { "evm", "svm", "unknown" }
        /\ chain_type = "evm" <=> IsEvmText(t)
        /\ chain_type = "svm" <=> ~IsEvmText(t) /\ IsSvmText(t)
        /\ chain_type = "unknown" <=> ~IsEvmText(t) /\ ~IsSvmText(t)
        /\ pc = "await_balances" => chain_type = "evm"
        /\ pc = "await_svm_balances" => chain_type = "svm"
        /\ idx = 2 => chain_type = "unknown"

\* a padded text of 44 base58 characters that decodes to 32 bytes was
\* classified svm
C13_Witness ==
    /\ pc = "await_svm_balances"
    /\ Len(wallets[1]) > 44
    /\ Len(Trimmed(wallets[1])) = 44
    /\ wallets[1][Len(wallets[1]) - 1] # "1"

InFlight == { i \in 1..Len(requests) : requests[i].resp.status = "pending" }

\* the place of the wallet in the list of the call
PlaceOf(w) == CHOOSE k \in 1..Len(wallets) : wallets[k] = w

\* C15: the upstream requests of a call are strictly sequential: at most one
\* is in flight, and it is the latest; it was issued when every wallet before
\* its own had been merged and none after; requests follow the order of the
\* wallets; an activity request comes right after the answered balances
\* request of the same wallet.
C15_Sequential ==
    /\ InFlight \subseteq { Len(requests) }
    /\ InFlight # {} =>
          /\ idx = PlaceOf(requests[Len(requests)].wallet)
          /\ Len(returned) = idx - 1
          /\ \A m \in 1..Len(returned) : returned[m].wallet = wallets[m]
    /\ \A i, j \in 1..Len(requests) :
          i < j => PlaceOf(requests[i].wallet) <= PlaceOf(requests[j].wallet)
    /\ \A j \in 1..Len(requests) :
          requests[j].endpoint = "evm_activity" =>
              /\ j > 1
              /\ requests[j - 1].endpoint = "evm_balances"
              /\ requests[j - 1].wallet = requests[j].wallet
              /\ requests[j - 1].resp.status # "pending"

\* the activity request of the second of two EVM wallets is in flight
C15_Witness ==
    /\ pc = "await_activity"
    /\ idx = 2
    /\ Len(requests) = 4
    /\ InFlight = { 4 }
    /\ Len(returned) = 1

\* the price the record gives: its own, else that of its metadata
GivenPrice(t) ==
    IF t.price_usd.k = "num" THEN t.price_usd
    ELSE IF t.token_metadata.k = "dict" /\ t.token_metadata.price_usd.k = "num"
         THEN t.token_metadata.price_usd
    ELSE JNull

GivenHistory(t) ==
    IF t.historical_prices # <<>> THEN t.historical_prices
    ELSE IF t.token_metadata.k = "dict" THEN t.token_metadata.historical_prices
    ELSE <<>>

\* the first entry of the history that is 24 hours old
Has24h(t) == \E i \in 1..Len(GivenHistory(t)) : GivenHistory(t)[i].offset_hours = 24

Price24hAgo(t) ==
    LET hist == GivenHistory(t)
        first == CHOOSE i \in 1..Len(hist) :
                    /\ hist[i].offset_hours = 24
                    /\ \A j \in 1..(i - 1) : hist[j].offset_hours # 24
    IN  hist[first].price_usd

\* (price - past) / past * 100, in hundredths
PercentChange(price, past) == JNum(((price.v - past.v) * 100 * 100) \div past.v)

IsLowLiquidity(t) == t.low_liquidity

IsLiquid(t) == ~t.low_liquidity

\* C16: low_liquidity hides the badge of an EVM token and nothing else: the
\* token is emitted with change24hBadgeClass and change24hBadgeLabel null and
\* with the change24h of its price against its price 24 hours ago whenever
\* both are given, and total_pnl_24h counts its usdValue * change24h / 100
\* beside that of the other tokens.
C16_LowLiquidityKeepsChange ==
    /\ pc = "await_activity" =>
          \A n \in 1..Len(tokens) :
              IsLowLiquidity(tokens[n]) =>
                  /\ tokens[n].change24hBadgeClass = JNull
                  /\ tokens[n].change24hBadgeLabel = JNull
                  /\ (/\ GivenPrice(tokens[n]).k = "num"
                      /\ Has24h(tokens[n])
                      /\ Price24hAgo(tokens[n]).k = "num"
                      /\ Price24hAgo(tokens[n]).v # 0) =>
                        tokens[n].change24h =
                            PercentChange(GivenPrice(tokens[n]), Price24hAgo(tokens[n]))
    /\ (pc = "done" /\ result.returned) =>
          result.total_pnl_24h = SumKnownPnl(SelectSeq(result.tokens, IsLowLiquidity))
                                 + SumKnownPnl(SelectSeq(result.tokens, IsLiquid))

\* the low-liquidity token worth 20.00 at +10 % is the only token of known
\* change: the total is its 2.00
C16_Witness ==
    /\ pc = "done" /\ result.returned
    /\ result.total_pnl_24h = 200
    /\ \E n \in 1..Len(result.tokens) :
          /\ IsLowLiquidity(result.tokens[n])
          /\ result.tokens[n].valueUSDNumeric = 2000
          /\ result.tokens[n].change24h = JNum(1000)
          /\ result.tokens[n].change24hBadgeLabel = JNull
    /\ \A n \in 1..Len(result.tokens) :
          IsLiquid(result.tokens[n]) => result.tokens[n].change24h = JNull

\* what the upstream answered the call for the wallet at the endpoint
AnswerTo(f, endpoint, w) ==
    f.requests[CHOOSE i \in 1..Len(f.requests) :
                  f.requests[i].endpoint = endpoint /\ f.requests[i].wallet = w].resp

\* the loop of get_portfolio run by itself over wallets k..upto of the call,
\* against the answers the call got: [raised, portfolio_tokens, all_activities]
RECURSIVE LoopAlone(_, _, _, _, _)
LoopAlone(f, k, upto, merged, acts) ==
    IF k > upto
    THEN [raised |-> FALSE, portfolio_tokens |-> merged, all_activities |-> acts]
    ELSE LET w == f.wallets[k]
             chain_type == detect_chain_type(w)
             balances == get_wallet_balances(w, AnswerTo(f, "evm_balances", w))
             activity == get_wallet_activity(w, AnswerTo(f, "evm_activity", w))
             svm == get_svm_balances(w, AnswerTo(f, "svm_balances", w))
             stop == [raised |-> TRUE, portfolio_tokens |-> merged, all_activities |-> acts]
         IN  IF chain_type = "evm"
             THEN IF balances.raised \/ activity.raised THEN stop
                  ELSE LoopAlone(f, k + 1, upto,
                                 merge_tokens(merged, balances.tokens, w),
                                 tag_activities(acts, activity.activities, w))
             ELSE IF chain_type = "svm"
             THEN IF svm.raised THEN stop
                  ELSE LoopAlone(f, k + 1, upto, merge_tokens(merged, svm.tokens, w), acts)
             ELSE LoopAlone(f, k + 1, upto, merged, acts)

\* the wallets the call has merged
MergedSoFar(f) == IF f.pc = "idle" THEN 0 ELSE f.idx - 1

\* what the call returns when run by itself
ResultAlone(f) ==
    LET end == LoopAlone(f, 1, Len(f.wallets), <<>>, <<>>)
    IN  IF end.raised THEN NoResult
        ELSE [returned |-> TRUE]
             @@ portfolio_result(end.portfolio_tokens, end.all_activities, f.token_filter)

\* the merge map and the activities of each call are those of its own wallets
\* and answers, and so is its result
FramesAsAlone ==
    \A c \in DOMAIN calls :
        LET f == calls[c]
            own == LoopAlone(f, 1, MergedSoFar(f), <<>>, <<>>)
        IN  /\ ~own.raised
            /\ f.portfolio_tokens = own.portfolio_tokens
            /\ f.all_activities = own.all_activities
            /\ f.pc = "done" => f.result = ResultAlone(f)

\* a step changes the frame of one call
OwnFrameOnly ==
    \A c \in DOMAIN calls :
        calls'[c] # calls[c] => \A d \in DOMAIN calls \ { c } : calls'[d] = calls[d]

\* C14: two get_portfolio calls interleaved at their steps in any order share
\* no state: at every moment the merge map and the activities of a call are
\* what its own wallets and answers give, a step of one call leaves the frame
\* of the other as it was, and a call returns what it returns when run alone
\* against the same answers.
C14_RequestScoped == [](FramesAsAlone) /\ [][OwnFrameOnly]_vars

\* the second call has returned USDC from the wallet the first call has also
\* merged, while the first call waits for the activity of its second wallet
C14_Witness ==
    /\ DOMAIN calls = Callers
    /\ calls[1].pc = "await_activity"
    /\ calls[1].idx = 2
    /\ calls[1].portfolio_tokens # <<>>
    /\ calls[2].pc = "done"
    /\ calls[2].result.returned
    /\ calls[2].wallets = << calls[1].wallets[1] >>
    /\ \E n \in 1..Len(calls[2].result.tokens) :
          \E m \in 1..Len(calls[1].portfolio_tokens) :
              /\ token_key(calls[2].result.tokens[n]) = calls[1].portfolio_tokens[m].key
              /\ calls[2].result.tokens[n].valueUSDNumeric
                    # calls[1].portfolio_tokens[m].tok.valueUSDNumeric

====
